---- MODULE Spec2Model ----
(***************************************************************************)
(* The browser-agent side of the action link: the modular                  *)
(* WebSocketManager (extension/websocket-manager.js) and the monolithic    *)
(* service worker (extension/background.js).  Both own a socket to the     *)
(* server, reconnect with exponential backoff, answer pings and run one    *)
(* action handler per action envelope.  The envelope is dispatched by the  *)
(* action router over the handler registry (extension/action-handlers.js)  *)
(* or by handleAction of background.js.                                    *)
(*                                                                         *)
(* A socket is one `new WebSocket(url)` object; the browser moves it       *)
(* through CONNECTING, OPEN, CLOSING, CLOSED and fires its open, message,  *)
(* error and close events, each of which runs the handler wired to it.     *)
(* JavaScript runs every handler to completion, so one event (or one timer *)
(* callback, or the continuation after one await) is one step.             *)
(***************************************************************************)
EXTENDS Integers, Sequences, FiniteSets, TLC

----------------------------------------------------------------------------
(* Bounds of the model. *)

\* WebSocket objects the link may create in one run.
MaxSockets == 7
\* Calls of connect() made from outside the link (initialisation, callers).
MaxConnectCalls == 2
\* Inbound frames delivered in one run.
MaxMsgs == 1
\* Sockets that exist while frames are being exchanged.
MaxMsgSockets == 2
\* Calls of createResponseFuture in one run.
MaxWaiters == 2
\* Sockets that exist while waiters are being created and resolved.
MaxWaiterSockets == 1

\* Action envelopes in flight at once in one run.
MaxConcurrentMsgs == 2
\* Sockets the link goes through while actions are in flight.
MaxConcurrentSockets == 2

\* Elements of the largest document tried.
MaxPageLen == 33
\* Envelopes dispatched in one run.
MaxDispatches == 1
\* addLog calls in one run of the StateManager.
MaxLogs == 102
\* Tasks submitted from the popup in one run.
MaxTasks == 2
\* Status requests of the popup in flight at once.
MaxPolls == 2
\* Interval timers the popup creates in one run.
MaxTimers == 3
\* Final results rendered for one task (more are not counted).
MaxRenders == 2
\* Sockets a run of the background worker may create.
MaxWorkerSockets == 3
\* Elements one locator of smartClick matches.
MaxMatches == 2
\* How late a poll timer may fire, in ms.
MaxLateness == 100

----------------------------------------------------------------------------
(* Program constants. *)

maxReconnectAttempts == 5
responseTimeout == 20000
reconnectDelay == 1000
MAX_RECONNECT_ATTEMPTS == 5
RECONNECT_DELAY == 1000

elementCap == 30
\* waitFor: the default deadline and the delay between two polls, in ms.
defaultWaitTimeout == 5000
\* StateManager.addLog: the log entries kept.
logCap == 100
pollInterval == 100

----------------------------------------------------------------------------
(* Values. *)

Null == 0
Absent == "<absent>"
Impls == {"wsm", "bg"}
Ids == {"r1", "r2"}
Sockets == 1..MaxSockets

\* Inbound text frames.  json says what JSON.parse makes of the text: it
\* throws ("invalid"), yields null, or yields an object with these fields.
\* A field is Absent, present but falsy (the empty string), or a value.
Frames ==
    { [json |-> "invalid", type |-> Absent, id |-> Absent, action |-> Absent,
       status |-> Absent],
      [json |-> "null", type |-> Absent, id |-> Absent, action |-> Absent,
       status |-> Absent] }
    \cup
    { f \in [json : {"object"}, type : {Absent, "ping", "connected"},
             id : {Absent, "", "r1", "r2"}, action : {Absent, "", "act"},
             status : {Absent, "success", "error"}] :
        f.status # Absent => (f.type = Absent /\ f.action = Absent) }

NoFrame == [json |-> "none", type |-> Absent, id |-> Absent, action |-> Absent,
            status |-> Absent]

\* Outbound frames, as JSON.stringify writes them.
OutFrame(type, from, id, status, data, error) ==
    [type |-> type, from |-> from, id |-> id, status |-> status,
     data |-> data, error |-> error]
Handshake == OutFrame("connected", "extension", Absent, Absent, Absent, Absent)
Pong == OutFrame("pong", Absent, Absent, Absent, Absent, Absent)
SuccessFrame(id, data) == OutFrame(Absent, Absent, id, "success", data, Absent)
ErrorFrame(id, msg) == OutFrame(Absent, Absent, id, "error", Absent, msg)

\* What an action handler's promise settles with: a returned value, a thrown
\* Error (message is its .message) or a thrown value that is no Error (a
\* string, which has no .message).  string is what String(error) yields.
Outcomes ==
    { [kind |-> "return", value |-> "d1", message |-> Absent, string |-> Absent],
      [kind |-> "throwError", value |-> Absent, message |-> "boom", string |-> "Error: boom"],
      [kind |-> "throwString", value |-> Absent, message |-> Absent, string |-> "oops"] }
NoOutcome == [kind |-> "none", value |-> Absent, message |-> Absent, string |-> Absent]

VARIABLES
    impl,               \* which implementation runs: WebSocketManager or background.js
    sockets,            \* readyState of every WebSocket object created ("NONE": not yet)
    ws,                 \* this.ws / ws: the socket the link holds, Null when none
    reconnectAttempts,  \* this.reconnectAttempts / reconnectAttempts
    timers,             \* pending setTimeout(connect, delay) callbacks, oldest first
    notifications,      \* chrome.notifications.create calls made
    sent,               \* per socket, the frames handed to ws.send, in order
    requests,           \* action envelopes passed to the action handler, in order
    persistentState, agentState,    \* background.js: the `connected` field of persistentState
    connectCalls,       \* external connect() calls made so far
    msgCount,           \* inbound frames delivered so far
    socketBudget,       \* WebSocket objects the run may create (a bound of the model)
    msgBudget,          \* inbound frames the run may deliver (a bound of the model)
    pendingResponses,   \* this.pendingResponses: action id -> index of its waiter, 0 when absent
    waiters,            \* every promise made by createResponseFuture, with its timer
    tab,                \* the active tab of the current window
    dispatch,           \* the last envelope dispatched: its inputs, handlers, chrome calls, result
    wait,               \* a handler suspended on the tab or on its poll timer, and how it settled
    popup,              \* popup.js: its globals, the Run button, its timers and requests in flight
    tasks,              \* the server's tasks: the status of each, by task id
    state,              \* StateManager: this.state
    scheduled,          \* history: delays scheduled since the last open (or the start)
    last                \* history: the frame delivered, or the request settled, by the last step

corrVars == <<pendingResponses, waiters>>
dispatchVars == <<tab, dispatch>>
timedVars == <<wait>>
popupVars == <<popup, tasks, state>>

vars == <<impl, sockets, ws, reconnectAttempts, timers, notifications, sent,
          requests, persistentState, agentState, connectCalls, msgCount, socketBudget,
          msgBudget, pendingResponses, waiters, tab, dispatch, wait, popup, tasks, state,
          scheduled, last>>

Event(op, sock, frame, req) == [op |-> op, sock |-> sock, frame |-> frame, req |-> req]
\* Any step that is neither the delivery of a frame nor the settling of a handler.
NoEvent == Event("other", Null, NoFrame, 0)

created == {s \in Sockets : sockets[s] # "NONE"}
live == {s \in Sockets : sockets[s] \in {"CONNECTING", "OPEN"}}
nextSocket == Cardinality(created) + 1

----------------------------------------------------------------------------
(* WebSocketManager (websocket-manager.js). *)

\* send(data), evaluated against the readyStates rs in force when it runs.
send(rs, data) ==
    IF ws # Null /\ rs[ws] = "OPEN"
    THEN sent' = [sent EXCEPT ![ws] = Append(@, data)]
    ELSE UNCHANGED sent

backoffDelay_linear(attempts) == reconnectDelay * attempts
backoffDelay(attempts) == reconnectDelay * 2 ^ (attempts - 1)

\* new WebSocket(url) assigned to ws, handlers wired.
newSocket ==
    /\ nextSocket <= socketBudget
    /\ sockets' = [sockets EXCEPT ![nextSocket] = "CONNECTING"]
    /\ ws' = nextSocket

connect ==
    IF ws # Null /\ sockets[ws] = "OPEN"
    THEN UNCHANGED <<sockets, ws>>
    ELSE newSocket

handleOpen(rs) ==
    /\ reconnectAttempts' = 0
    /\ send(rs, Handshake)

attemptReconnect ==
    IF reconnectAttempts >= maxReconnectAttempts
    THEN /\ notifications' = notifications + 1
         /\ UNCHANGED <<reconnectAttempts, timers, scheduled>>
    ELSE /\ reconnectAttempts' = reconnectAttempts + 1
         /\ timers' = Append(timers, backoffDelay(reconnectAttempts + 1))
         /\ scheduled' = Append(scheduled, backoffDelay(reconnectAttempts + 1))
         /\ UNCHANGED notifications

handleError == TRUE

handleClose == attemptReconnect

\* JavaScript truthiness of a frame field.
truthy(v) == v # Absent /\ v # ""

\* error?.message || String(error)
errorMsg(o) == IF truthy(o.message) THEN o.message ELSE o.string

\* A new entry of requests: the envelope handed to the action handler.
Request(s, f) ==
    [id |-> f.id, sock |-> s, state |-> "running", outcome |-> NoOutcome]

\* What handleMessage does with a frame before its first await:
\* "drop" (return), "pong", or "execute" (call the action handler).
classify_noIdCheck(f) ==
    IF f.json = "invalid" THEN "drop"
    ELSE IF f.json = "null" THEN "drop"
    ELSE IF f.type = "ping" THEN "pong"
    ELSE IF f.type = "connected" THEN "drop"
    ELSE IF ~truthy(f.action) THEN "drop"
    ELSE "execute"
classify(f) ==
    IF f.json = "invalid" THEN "drop"          \* JSON.parse throws: return
    ELSE IF f.json = "null" THEN "drop"        \* message.type throws a TypeError
    ELSE IF f.type = "ping" THEN "pong"
    ELSE IF f.type = "connected" THEN "drop"
    ELSE IF ~truthy(f.id) \/ ~truthy(f.action) THEN "drop"
    ELSE "execute"

handleMessage_serialized(s, f) ==
    IF \E k \in 1..Len(requests) : requests[k].state = "running"
    THEN UNCHANGED <<sent, requests>>
    ELSE CASE classify(f) = "pong" ->
                 /\ send(sockets, Pong)
                 /\ UNCHANGED requests
           [] classify(f) = "execute" ->
                 /\ requests' = Append(requests, Request(s, f))
                 /\ UNCHANGED sent
           [] OTHER -> UNCHANGED <<sent, requests>>

\* handleMessage(event) up to the await of the action handler.
handleMessage(s, f) ==
    CASE classify(f) = "pong" ->
            /\ send(sockets, Pong)
            /\ UNCHANGED requests
      [] classify(f) = "execute" ->
            /\ requests' = Append(requests, Request(s, f))
            /\ UNCHANGED sent
      [] OTHER -> UNCHANGED <<sent, requests>>

handleMessage_settled_alwaysSuccess(k, o) ==
    /\ send(sockets, SuccessFrame(requests[k].id, IF o.kind = "return" THEN o.value ELSE o.message))
    /\ requests' = [requests EXCEPT ![k].state = "settled", ![k].outcome = o]
\* handleMessage after the await: the handler's promise settled with o.
handleMessage_settled(k, o) ==
    LET frame == IF o.kind = "return"
                 THEN SuccessFrame(requests[k].id, o.value)
                 ELSE ErrorFrame(requests[k].id, errorMsg(o))
    IN  /\ send(sockets, frame)
        /\ requests' = [requests EXCEPT ![k].state = "settled", ![k].outcome = o]

\* The responses a caller hands to resolveResponse: the result frames.
Responses == {f \in Frames : f.status # Absent /\ f.id \in Ids}

\* The promise of waiter w and the setTimeout that guards it.
Waiter(actionId) ==
    [id |-> actionId, state |-> "pending", value |-> NoFrame, error |-> Absent,
     timeout |-> "armed", delay |-> responseTimeout]

\* createResponseFuture(actionId): the returned promise is waiters[Len(waiters) + 1].
createResponseFuture(actionId) ==
    /\ waiters' = Append(waiters, Waiter(actionId))
    /\ pendingResponses' = [pendingResponses EXCEPT ![actionId] = Len(waiters) + 1]

responseTimeoutFires_noDelete(w) ==
    /\ UNCHANGED pendingResponses
    /\ waiters' = [waiters EXCEPT
            ![w].timeout = "fired",
            ![w].state = IF @ = "pending" THEN "rejected" ELSE @,
            ![w].error = IF waiters[w].state = "pending" THEN "Action timeout" ELSE @]
\* The setTimeout callback of waiter w.  reject() on a settled promise does nothing.
responseTimeoutFires(w) ==
    /\ pendingResponses' = [pendingResponses EXCEPT ![waiters[w].id] = 0]
    /\ waiters' = [waiters EXCEPT
            ![w].timeout = "fired",
            ![w].state = IF @ = "pending" THEN "rejected" ELSE @,
            ![w].error = IF waiters[w].state = "pending" THEN "Action timeout" ELSE @]

resolveResponse_noDelete(actionId, response) ==
    LET pending == pendingResponses[actionId] IN
    IF pending # 0
    THEN /\ waiters' = [waiters EXCEPT
                ![pending].timeout = IF @ = "armed" THEN "cleared" ELSE @,
                ![pending].state = IF @ = "pending" THEN "resolved" ELSE @,
                ![pending].value = IF waiters[pending].state = "pending" THEN response ELSE @]
         /\ UNCHANGED pendingResponses
    ELSE UNCHANGED <<pendingResponses, waiters>>
resolveResponse_noClear(actionId, response) ==
    LET pending == pendingResponses[actionId] IN
    IF pending # 0
    THEN /\ waiters' = [waiters EXCEPT
                ![pending].state = IF @ = "pending" THEN "resolved" ELSE @,
                ![pending].value = IF waiters[pending].state = "pending" THEN response ELSE @]
         /\ pendingResponses' = [pendingResponses EXCEPT ![actionId] = 0]
    ELSE UNCHANGED <<pendingResponses, waiters>>

\* resolveResponse(actionId, response).  resolve() on a settled promise and
\* clearTimeout of a timer that has fired do nothing.
resolveResponse(actionId, response) ==
    LET pending == pendingResponses[actionId] IN
    IF pending # 0
    THEN /\ waiters' = [waiters EXCEPT
                ![pending].timeout = IF @ = "armed" THEN "cleared" ELSE @,
                ![pending].state = IF @ = "pending" THEN "resolved" ELSE @,
                ![pending].value = IF waiters[pending].state = "pending" THEN response ELSE @]
         /\ pendingResponses' = [pendingResponses EXCEPT ![actionId] = 0]
    ELSE UNCHANGED <<pendingResponses, waiters>>

----------------------------------------------------------------------------
(* background.js. *)

wsSend(rs, obj) ==
    IF ws # Null /\ rs[ws] = "OPEN"
    THEN sent' = [sent EXCEPT ![ws] = Append(@, obj)]
    ELSE UNCHANGED sent

updateState(connected) ==
    /\ persistentState' = [persistentState EXCEPT !.connected = connected]
    /\ agentState' = <<persistentState'>>

\* chrome.storage.local holds no agentState / the states a worker saved
\* (a sequence of at most one object).
NoAgentState == <<>>
AgentStates == {NoAgentState, <<[connected |-> FALSE]>>, <<[connected |-> TRUE]>>}

\* loadPersistentState(): persistentState becomes the stored object, if any.
loadPersistentState ==
    /\ persistentState' = IF agentState # NoAgentState THEN agentState[1] ELSE persistentState
    /\ UNCHANGED agentState

\* The onMessage listener on a clearState request: persistentState is
\* replaced by the idle state and saved.
clearState ==
    /\ persistentState' = [connected |-> FALSE]
    /\ agentState' = <<persistentState'>>

connectWebSocket ==
    IF ws # Null /\ sockets[ws] = "OPEN"
    THEN UNCHANGED <<sockets, ws>>
    ELSE newSocket

onopen(rs) ==
    /\ reconnectAttempts' = 0
    /\ wsSend(rs, Handshake)
    /\ updateState(TRUE)

bg_attemptReconnect ==
    IF reconnectAttempts >= MAX_RECONNECT_ATTEMPTS
    THEN /\ notifications' = notifications + 1
         /\ UNCHANGED <<reconnectAttempts, timers, scheduled>>
    ELSE /\ reconnectAttempts' = reconnectAttempts + 1
         /\ timers' = Append(timers, RECONNECT_DELAY * 2 ^ ((reconnectAttempts + 1) - 1))
         /\ scheduled' = Append(scheduled, RECONNECT_DELAY * 2 ^ ((reconnectAttempts + 1) - 1))
         /\ UNCHANGED notifications

onerror == updateState(FALSE)

\* What ws.onmessage does with a frame before its first await.
bg_classify(f) ==
    IF f.json = "invalid" THEN "drop"
    ELSE IF f.json # "null" /\ f.type = "ping" THEN "pong"
    ELSE IF f.json = "null" \/ f.id = Absent \/ f.action = Absent THEN "drop"
    ELSE "execute"

\* ws.onmessage up to the await of handleAction.
onmessage(s, f) ==
    CASE bg_classify(f) = "pong" ->
            /\ wsSend(sockets, Pong)
            /\ UNCHANGED requests
      [] bg_classify(f) = "execute" ->
            /\ requests' = Append(requests, Request(s, f))
            /\ UNCHANGED sent
      [] OTHER -> UNCHANGED <<sent, requests>>

\* String(error && error.message || error)
bg_errorMsg(o) == IF o.message \notin {Absent, ""} THEN o.message ELSE o.string

\* ws.onmessage after the await: handleAction's promise settled with o.
onmessage_settled(k, o) ==
    LET frame == IF o.kind = "return"
                 THEN SuccessFrame(requests[k].id, o.value)
                 ELSE ErrorFrame(requests[k].id, bg_errorMsg(o))
    IN  /\ wsSend(sockets, frame)
        /\ requests' = [requests EXCEPT ![k].state = "settled", ![k].outcome = o]

onclose ==
    /\ updateState(FALSE)
    /\ bg_attemptReconnect

----------------------------------------------------------------------------
(* Action dispatch: the action router (action-router.js: handleAction and  *)
(* validatePayload) with the handler registry of action-handlers.js, and   *)
(* handleAction of background.js with its handler functions.  impl "wsm"   *)
(* is the modular build, impl "bg" the monolithic service worker.          *)

\* The own keys of the actionHandlers registry / the cases of the switch.
KnownActions ==
    {"navigate", "waitFor", "click", "type", "press", "query", "getPageInfo",
     "getInteractiveElements", "smartClick", "smartType", "switchTab",
     "download", "uploadFile", "captureScreenshot"}

\* Keys that every object literal inherits from Object.prototype
\* (actionHandlers["constructor"] is the function Object).
InheritedKeys == {"constructor"}

\* url.startsWith(prefix)
startsWith(url, prefix) ==
    Len(url) >= Len(prefix) /\ SubSeq(url, 1, Len(prefix)) = prefix

\* URLUtils.isForbidden / isForbidden
isForbidden(url) ==
    \E prefix \in {"chrome://", "edge://", "about:", "chrome-extension://"} : startsWith(url, prefix)

SchemeLetters ==
    {"a", "b", "c", "d", "e", "f", "g", "h", "i", "j", "k", "l", "m", "n", "o",
     "p", "q", "r", "s", "t", "u", "v", "w", "x", "y", "z"}
SchemeChars == SchemeLetters \cup {"+", "-", "."}

\* URLUtils.isValid: new URL(url) succeeds without a base exactly when url is
\* absolute, that is when it starts with a scheme: a letter, then letters,
\* "+", "-" or ".", then ":".
isValid(url) ==
    \E i \in 2..Len(url) :
        /\ SubSeq(url, i, i) = ":"
        /\ SubSeq(url, 1, 1) \in SchemeLetters
        /\ \A j \in 1..(i - 1) : SubSeq(url, j, j) \in SchemeChars

\* payload.index as JavaScript sees it: undefined, a number or a string.
NoIndex == [type |-> "undefined", value |-> 0]
Indexes == {NoIndex} \cup [type : {"number", "string"}, value : {0, 1, 5}]

\* The payload of an envelope ({} when the envelope has none).
EmptyPayload ==
    [url |-> Absent, selector |-> Absent, text |-> Absent, key |-> Absent,
     index |-> NoIndex, id |-> Absent, name |-> Absent, ariaLabel |-> Absent,
     role |-> Absent, description |-> Absent, timeout |-> NoIndex,
     timeout_ms |-> NoIndex]

NavigateUrls ==
    {Absent, "", "example.com", "/path", "https://example.com/", "chrome://settings",
     "edge://settings", "about:blank", "chrome-extension://abc/page.html",
     "chrome:settings"}

\* The locator fields of smartClick.
LocatorFields == {"selector", "id", "name", "ariaLabel", "role", "text", "description"}

\* The payloads tried for each action.
PayloadsOf(action) ==
    CASE action \in {"navigate", "download"} ->
            {[EmptyPayload EXCEPT !.url = u] : u \in NavigateUrls}
      [] action \in {"waitFor", "click", "query"} ->
            {[EmptyPayload EXCEPT !.selector = s] : s \in {Absent, "", "#a"}}
      [] action = "type" ->
            {[EmptyPayload EXCEPT !.selector = s, !.text = t] :
                s \in {Absent, "", "#a"}, t \in {Absent, "hi"}}
      [] action = "press" ->
            {[EmptyPayload EXCEPT !.key = k] : k \in {Absent, "", "Enter"}}
      [] action = "smartType" ->
            {[EmptyPayload EXCEPT !.text = t, !.selector = s] :
                t \in {Absent, "", "hi"}, s \in {Absent, "#a"}}
      [] action = "switchTab" ->
            {[EmptyPayload EXCEPT !.index = ix] : ix \in Indexes}
      [] action = "smartClick" ->
            {EmptyPayload,
             [EmptyPayload EXCEPT !.selector = "", !.id = "", !.name = "",
                 !.ariaLabel = "", !.role = "", !.text = "", !.description = ""],
             [EmptyPayload EXCEPT !.selector = "#a", !.id = "a", !.name = "a",
                 !.ariaLabel = "a", !.role = "button", !.text = "a", !.description = "a"]}
            \cup {[EmptyPayload EXCEPT ![f] = "a"] : f \in LocatorFields}
            \cup {[EmptyPayload EXCEPT !.key = "Enter", !.url = "https://example.com/"]}
      [] action = "uploadFile" -> {EmptyPayload, [EmptyPayload EXCEPT !.selector = "#a"]}
      [] OTHER -> {EmptyPayload}

\* Action envelopes reaching the dispatcher: { id, action, payload }.
ActionEnvelopes ==
    UNION { [id : {"r1"}, action : {a}, payload : PayloadsOf(a)] :
                a \in KnownActions \cup InheritedKeys \cup {"fly"} }
NoEnvelope == [id |-> Absent, action |-> Absent, payload |-> EmptyPayload]

\* The active tab of the current window, as chrome.tabs.query returns it.
NoTab == [id |-> Null, url |-> "", title |-> "", readyState |-> ""]
Tab(url) == [id |-> 1, url |-> url, title |-> "Title", readyState |-> "complete"]
Tabs ==
    {NoTab, Tab("https://site.test/"), Tab("chrome://newtab/"), Tab("about:blank"),
     Tab("edge://settings/"), Tab("chrome-extension://abc/page.html")}

\* What chrome.scripting.executeScript (or another asynchronous chrome call)
\* does: its promise fulfils with a result, fulfils without one
\* (r[0].result is undefined), or rejects (the page cannot be accessed, the
\* tab is gone, the injected function threw).
Injections == {"ok", "noResult", "rejects"}

Return(v) == [kind |-> "return", value |-> v, message |-> Absent, string |-> Absent]
Throw(msg) ==
    [kind |-> "throwError", value |-> Absent, message |-> msg, string |-> "Error: " \o msg]

\* What running a handler amounts to: how its promise settles, the chrome
\* calls it made (other than queries), in order.
Ran(out, calls) == [out |-> out, calls |-> calls]
ChromeCall(api, url) == [api |-> api, url |-> url]

\* No envelope has been dispatched yet.
NoDispatch ==
    [n |-> 0, env |-> NoEnvelope, tab |-> NoTab, page |-> <<>>, inj |-> "ok",
     out |-> NoOutcome, executed |-> <<>>, calls |-> <<>>,
     result |-> OutFrame(Absent, Absent, Absent, Absent, Absent, Absent)]

\* A number in a payload (NoIndex when the field is missing).
Number(n) == [type |-> "number", value |-> n]

waitTimeout_timeoutMs(payload) ==
    IF payload.timeout_ms.type = "number" /\ payload.timeout_ms.value # 0
    THEN payload.timeout_ms.value
    ELSE defaultWaitTimeout
\* payload.timeout || 5000: the deadline handed to the injected poll.
waitTimeout(payload) ==
    IF payload.timeout.type = "number" /\ payload.timeout.value # 0
    THEN payload.timeout.value
    ELSE defaultWaitTimeout

\* Envelopes of the two handlers that suspend: waitFor on its poll timer,
\* navigate on the tab's onUpdated event.
TimedEnvelopes ==
    [id : {"r1"}, action : {"waitFor"},
     payload : {[EmptyPayload EXCEPT !.selector = "#a", !.timeout = ms, !.timeout_ms = ms2] :
                    ms \in {NoIndex, Number(0), Number(300)},
                    ms2 \in {NoIndex, Number(200)}}]
    \cup [id : {"r1"}, action : {"navigate"},
          payload : {[EmptyPayload EXCEPT !.url = "https://example.com/"]}]

\* StateManager.getDefaultState()
getDefaultState ==
    [currentTaskId |-> Null, taskStatus |-> "idle", taskDescription |-> "", logs |-> <<>>,
     lastUpdate |-> Absent, connected |-> FALSE]

\* No handler is suspended.
NoWait ==
    [phase |-> "idle", env |-> NoEnvelope, ms |-> 0, elapsed |-> 0, present |-> FALSE,
     out |-> NoOutcome, result |-> OutFrame(Absent, Absent, Absent, Absent, Absent, Absent)]

\* The popup is not open.
NoPopup == [open |-> FALSE]

\* The elements document.querySelectorAll(sel) yields, in document order: n is
\* the element's position, used as its id attribute.
Element(n, hide) ==
    [n |-> n, tag |-> "button",
     width |-> IF hide = "zeroWidth" THEN 0 ELSE 10,
     height |-> IF hide = "zeroHeight" THEN 0 ELSE 10,
     display |-> IF hide = "displayNone" THEN "none" ELSE "block",
     visibility |-> IF hide = "visibilityHidden" THEN "hidden" ELSE "visible"]
Hidings == {"zeroWidth", "zeroHeight", "displayNone", "visibilityHidden"}
\* A document of len elements of which those at the positions in hidden are
\* invisible in the given way.
Page(len, hidden, hide) ==
    [i \in 1..len |-> Element(i, IF i \in hidden THEN hide ELSE "shown")]
Pages ==
    {Page(len, hidden, hide) :
        len \in {0, 2, elementCap, elementCap + 1, MaxPageLen},
        hidden \in {{}, {1}, {2}, {2, elementCap + 1}, {elementCap}},
        hide \in Hidings}
    \cup {Page(MaxPageLen, 1..MaxPageLen, hide) : hide \in Hidings}
\* smartClick's strategies, in the order the injected function tries them.
Strategies == <<"selector", "id", "name", "ariaLabel", "role", "text">>

\* The elements one locator matches, in document order, each shown or hidden.
Matches ==
    UNION { { [i \in 1..n |-> Element(i, h[i])] : h \in [1..n -> {"shown", "displayNone"}] } :
                n \in 0..MaxMatches }
\* A document as smartClick sees it: for each strategy the elements its query
\* matches (for text, the candidates whose text matches).  No strategy matches,
\* one does, or two match one element each.
NoMatches == [i \in 1..Len(Strategies) |-> <<>>]
ClickDoms ==
    {NoMatches}
    \cup {[NoMatches EXCEPT ![i] = m] : i \in 1..Len(Strategies), m \in Matches}
    \cup {[NoMatches EXCEPT ![i] = m1, ![j] = m2] :
              i \in 1..Len(Strategies), j \in 1..Len(Strategies),
              m1 \in {m \in Matches : Len(m) = 1}, m2 \in {m \in Matches : Len(m) = 1}}

\* The document matters to getInteractiveElements and to smartClick.
PagesFor(action) ==
    CASE action = "getInteractiveElements" -> Pages
      [] action = "smartClick" -> ClickDoms
      [] OTHER -> {<<>>}

getActiveTabSafe_noSchemeCheck(t) ==
    IF t = NoTab THEN "No active tab" ELSE Absent
\* getActiveTabSafe(): the error it throws, or Absent when it returns the tab.
getActiveTabSafe(t) ==
    IF t = NoTab THEN "No active tab"
    ELSE IF isForbidden(t.url) THEN "Unsupported scheme for scripting: " \o t.url
    ELSE Absent

\* waitForTabComplete resolves when the tab reports status complete.
Navigated(url) == [navigated |-> TRUE, url |-> url]

\* NavigateHandler.handle / navigateTo
navigate(payload, t) ==
    IF ~truthy(payload.url) THEN Ran(Throw("navigate requires payload.url"), <<>>)
    ELSE IF t = NoTab
    THEN Ran(Return(Navigated(payload.url)), <<ChromeCall("tabs.create", payload.url)>>)
    ELSE IF isForbidden(t.url)
    THEN Ran(Return(Navigated(payload.url)), <<ChromeCall("tabs.update", payload.url)>>)
    ELSE Ran(Return(Navigated(payload.url)), <<ChromeCall("tabs.update", payload.url)>>)

\* The observation getPageInfo returns from its catch block.
FailedPageInfo(msg) ==
    [url |-> "", title |-> "", readyState |-> "", diagnostics |-> [error |-> msg]]

\* GetPageInfoHandler.handle / getPageInfo.  The try block awaits
\* getActiveTabSafe, so its errors reach the catch block; it returns the promise
\* of executeScript without awaiting it, so a rejection of that promise is not
\* caught there and becomes the rejection of the handler's own promise.
getPageInfo(t, inj) ==
    IF getActiveTabSafe(t) # Absent
    THEN Ran(Return(FailedPageInfo(getActiveTabSafe(t))), <<>>)
    ELSE LET calls == <<ChromeCall("scripting.executeScript", t.url)>> IN
         CASE inj = "ok" ->
                Ran(Return([url |-> t.url, title |-> t.title, readyState |-> t.readyState,
                            diagnostics |-> [error |-> Absent]]), calls)
           [] inj = "noResult" ->
                Ran(Return([url |-> Absent, title |-> Absent, readyState |-> Absent,
                            diagnostics |-> [error |-> Absent]]), calls)
           [] OTHER -> Ran(Throw("Cannot access contents of the page"), calls)

\* The descriptor pushed for an element.
Descriptor(el) == [type |-> el.tag, id |-> el.n]

RECURSIVE collect_capOnPosition(_, _, _)
collect_capOnPosition(pg, i, out) ==
    IF i > Len(pg) THEN out
    ELSE IF pg[i].width = 0 \/ pg[i].height = 0
    THEN IF i >= elementCap THEN out ELSE collect_capOnPosition(pg, i + 1, out)
    ELSE IF pg[i].display = "none" \/ pg[i].visibility = "hidden"
    THEN IF i >= elementCap THEN out ELSE collect_capOnPosition(pg, i + 1, out)
    ELSE IF i >= elementCap
         THEN Append(out, Descriptor(pg[i]))
         ELSE collect_capOnPosition(pg, i + 1, Append(out, Descriptor(pg[i])))
\* The loop of the injected function: elements i.. of the document, out so far.
RECURSIVE collect(_, _, _)
collect(pg, i, out) ==
    IF i > Len(pg) THEN out
    ELSE IF pg[i].width = 0 \/ pg[i].height = 0
    THEN collect(pg, i + 1, out)                                  \* continue
    ELSE IF pg[i].display = "none" \/ pg[i].visibility = "hidden"
    THEN collect(pg, i + 1, out)                                  \* continue
    ELSE IF Len(Append(out, Descriptor(pg[i]))) >= elementCap
         THEN Append(out, Descriptor(pg[i]))                      \* break
         ELSE collect(pg, i + 1, Append(out, Descriptor(pg[i])))

\* GetInteractiveElementsHandler.handle / getInteractiveElements.
getInteractiveElements(t, pg, inj) ==
    IF getActiveTabSafe(t) # Absent
    THEN Ran(Return(<<>>), <<>>)
    ELSE LET calls == <<ChromeCall("scripting.executeScript", t.url)>> IN
         CASE inj = "ok" -> Ran(Return(collect(pg, 1, <<>>)), calls)
           [] inj = "noResult" -> Ran(Return(<<>>), calls)
           [] OTHER -> Ran(Throw("Cannot access contents of the page"), calls)

----------------------------------------------------------------------------
(* Steps: external calls, timer callbacks and socket events. *)

InitLink ==
    /\ impl \in Impls
    /\ sockets = [s \in Sockets |-> "NONE"]
    /\ ws = Null
    /\ reconnectAttempts = 0
    /\ timers = <<>>
    /\ notifications = 0
    /\ sent = [s \in Sockets |-> <<>>]
    /\ requests = <<>>
    /\ persistentState = [connected |-> FALSE]
    /\ agentState = NoAgentState
    /\ connectCalls = 0
    /\ msgCount = 0
    /\ scheduled = <<>>
    /\ last = NoEvent
    /\ pendingResponses = [i \in Ids |-> 0]
    /\ waiters = <<>>
    /\ tab = NoTab
    /\ dispatch = NoDispatch
    /\ wait = NoWait
    /\ popup = NoPopup
    /\ tasks = <<>>
    /\ state = getDefaultState
    /\ socketBudget = MaxSockets
    /\ msgBudget = 0

\* connect() / connectWebSocket() called from outside the link: the owner of a
\* WebSocketManager, or background.js's initialisation (top level, onStartup
\* and onInstalled each run loadPersistentState().then(connectWebSocket)).
Connect ==
    /\ connectCalls < MaxConnectCalls
    /\ connectCalls' = connectCalls + 1
    /\ IF impl = "wsm" THEN connect ELSE connectWebSocket
    /\ last' = NoEvent
    /\ UNCHANGED <<impl, reconnectAttempts, timers, notifications, sent, requests,
                   persistentState, agentState, msgCount, socketBudget, msgBudget, scheduled>>
    /\ UNCHANGED <<corrVars, dispatchVars, timedVars, popupVars>>

\* A reconnect timer fires and calls connect.
ReconnectTimer(i) ==
    /\ i \in 1..Len(timers)
    /\ timers' = [j \in 1..(Len(timers) - 1) |-> IF j < i THEN timers[j] ELSE timers[j + 1]]
    /\ IF impl = "wsm" THEN connect ELSE connectWebSocket
    /\ last' = NoEvent
    /\ UNCHANGED <<impl, reconnectAttempts, notifications, sent, requests,
                   persistentState, agentState, connectCalls, msgCount, socketBudget, msgBudget, scheduled>>
    /\ UNCHANGED <<corrVars, dispatchVars, timedVars, popupVars>>

\* The open event of socket s.
SocketOpen(s) ==
    /\ sockets[s] = "CONNECTING"
    /\ LET rs == [sockets EXCEPT ![s] = "OPEN"] IN
        /\ sockets' = rs
        /\ IF impl = "wsm"
           THEN handleOpen(rs) /\ UNCHANGED <<persistentState, agentState>>
           ELSE onopen(rs)
    /\ scheduled' = <<>>
    /\ last' = NoEvent
    /\ UNCHANGED <<impl, ws, timers, notifications, requests, connectCalls, msgCount,
                   socketBudget, msgBudget>>
    /\ UNCHANGED <<corrVars, dispatchVars, timedVars, popupVars>>

\* The connection of socket s fails: the browser closes it and fires the error
\* event and then the close event in the same task.
SocketFail(s) ==
    /\ sockets[s] \in {"CONNECTING", "OPEN", "CLOSING"}
    /\ sockets' = [sockets EXCEPT ![s] = "CLOSED"]
    /\ IF impl = "wsm"
       THEN handleError /\ handleClose /\ UNCHANGED <<persistentState, agentState>>
       ELSE onerror /\ onclose
    /\ last' = NoEvent
    /\ UNCHANGED <<impl, ws, sent, requests, connectCalls, msgCount, socketBudget,
                   msgBudget>>
    /\ UNCHANGED <<corrVars, dispatchVars, timedVars, popupVars>>

\* The close event of socket s after a clean closing handshake.
SocketClose(s) ==
    /\ sockets[s] \in {"OPEN", "CLOSING"}
    /\ sockets' = [sockets EXCEPT ![s] = "CLOSED"]
    /\ IF impl = "wsm"
       THEN handleClose /\ UNCHANGED <<persistentState, agentState>>
       ELSE onclose
    /\ last' = NoEvent
    /\ UNCHANGED <<impl, ws, sent, requests, connectCalls, msgCount, socketBudget,
                   msgBudget>>
    /\ UNCHANGED <<corrVars, dispatchVars, timedVars, popupVars>>

\* WebSocketManager.disconnect(): an explicit close by the owner.
disconnect ==
    /\ impl = "wsm"
    /\ ws # Null
    /\ sockets' = [sockets EXCEPT ![ws] = IF @ \in {"CONNECTING", "OPEN"} THEN "CLOSING" ELSE @]
    /\ ws' = Null
    /\ last' = NoEvent
    /\ UNCHANGED <<impl, reconnectAttempts, timers, notifications, sent, requests,
                   persistentState, agentState, connectCalls, msgCount, socketBudget, msgBudget, scheduled>>
    /\ UNCHANGED <<corrVars, dispatchVars, timedVars, popupVars>>

\* The message event of socket s with text frame f.
SocketMessage(s, f) ==
    /\ sockets[s] = "OPEN"
    /\ msgCount < msgBudget
    /\ msgCount' = msgCount + 1
    /\ IF impl = "wsm" THEN handleMessage(s, f) ELSE onmessage(s, f)
    /\ last' = Event("message", s, f, 0)
    /\ UNCHANGED <<impl, sockets, ws, reconnectAttempts, timers, notifications,
                   persistentState, agentState, connectCalls, socketBudget, msgBudget, scheduled>>
    /\ UNCHANGED <<corrVars, dispatchVars, timedVars, popupVars>>

\* The promise of the action handler running for request k settles.
ActionSettles(k, o) ==
    /\ k \in 1..Len(requests)
    /\ requests[k].state = "running"
    /\ IF impl = "wsm" THEN handleMessage_settled(k, o) ELSE onmessage_settled(k, o)
    /\ last' = Event("settle", ws, NoFrame, k)
    /\ UNCHANGED <<impl, sockets, ws, reconnectAttempts, timers, notifications,
                   persistentState, agentState, connectCalls, msgCount, socketBudget, msgBudget, scheduled>>
    /\ UNCHANGED <<corrVars, dispatchVars, timedVars, popupVars>>

linkVars == <<impl, sockets, ws, reconnectAttempts, timers, notifications, sent,
              requests, persistentState, agentState, connectCalls, msgCount, socketBudget,
              msgBudget, scheduled>>

\* The owner of the WebSocketManager asks for a waiter.
CreateResponseFuture(actionId) ==
    /\ impl = "wsm"
    /\ Len(waiters) < MaxWaiters
    /\ createResponseFuture(actionId)
    /\ last' = Event("create", Null, NoFrame, Len(waiters) + 1)
    /\ UNCHANGED <<linkVars, dispatchVars, timedVars, popupVars>>

\* The owner hands a response to resolveResponse.
ResolveResponse(response) ==
    /\ impl = "wsm"
    /\ resolveResponse(response.id, response)
    /\ last' = Event("resolve", Null, response, pendingResponses[response.id])
    /\ UNCHANGED <<linkVars, dispatchVars, timedVars, popupVars>>

\* The deadline of waiter w passes.  Every deadline is responseTimeout after its
\* creation, so the timers fire in the order the waiters were created.
ResponseTimeout(w) ==
    /\ impl = "wsm"
    /\ w \in 1..Len(waiters)
    /\ waiters[w].timeout = "armed"
    /\ \A v \in 1..(w - 1) : waiters[v].timeout # "armed"
    /\ responseTimeoutFires(w)
    /\ last' = Event("timeout", Null, NoFrame, w)
    /\ UNCHANGED <<linkVars, dispatchVars, timedVars, popupVars>>

NextLink ==
    \/ Connect
    \/ \E i \in 1..Len(timers) : ReconnectTimer(i)
    \/ \E s \in Sockets : SocketOpen(s)
    \/ \E s \in Sockets : SocketFail(s)
    \/ \E s \in Sockets : SocketClose(s)
    \/ disconnect

SpecLink == InitLink /\ [][NextLink]_vars

\* The service worker loads its state: at start-up, on onStartup and on
\* onInstalled (each followed by connectWebSocket, a Connect step).
LoadPersistentState ==
    /\ impl = "bg"
    /\ loadPersistentState
    /\ last' = NoEvent
    /\ UNCHANGED <<impl, sockets, ws, reconnectAttempts, timers, notifications, sent,
                   requests, connectCalls, msgCount, socketBudget, msgBudget, scheduled>>
    /\ UNCHANGED <<corrVars, dispatchVars, timedVars, popupVars>>

\* The popup sends { type: 'clearState' }.
ClearState ==
    /\ impl = "bg"
    /\ clearState
    /\ last' = NoEvent
    /\ UNCHANGED <<impl, sockets, ws, reconnectAttempts, timers, notifications, sent,
                   requests, connectCalls, msgCount, socketBudget, msgBudget, scheduled>>
    /\ UNCHANGED <<corrVars, dispatchVars, timedVars, popupVars>>

\* The service worker of background.js, started with whatever an earlier
\* worker left in storage.
InitWorker ==
    /\ impl = "bg"
    /\ sockets = [s \in Sockets |-> "NONE"]
    /\ ws = Null
    /\ reconnectAttempts = 0
    /\ timers = <<>>
    /\ notifications = 0
    /\ sent = [s \in Sockets |-> <<>>]
    /\ requests = <<>>
    /\ persistentState = [connected |-> FALSE]
    /\ agentState \in AgentStates
    /\ connectCalls = 0
    /\ msgCount = 0
    /\ scheduled = <<>>
    /\ last = NoEvent
    /\ pendingResponses = [i \in Ids |-> 0]
    /\ waiters = <<>>
    /\ socketBudget = MaxWorkerSockets
    /\ msgBudget = 0
    /\ tab = NoTab
    /\ dispatch = NoDispatch
    /\ wait = NoWait
    /\ popup = NoPopup
    /\ tasks = <<>>
    /\ state = getDefaultState

NextWorker ==
    \/ LoadPersistentState
    \/ Connect
    \/ \E i \in 1..Len(timers) : ReconnectTimer(i)
    \/ \E s \in Sockets : SocketOpen(s)
    \/ \E s \in Sockets : SocketFail(s)
    \/ \E s \in Sockets : SocketClose(s)
    \/ ClearState

SpecWorker == InitWorker /\ [][NextWorker]_vars

Init ==
    /\ impl \in Impls
    /\ sockets = [s \in Sockets |-> "NONE"]
    /\ ws = Null
    /\ reconnectAttempts = 0
    /\ timers = <<>>
    /\ notifications = 0
    /\ sent = [s \in Sockets |-> <<>>]
    /\ requests = <<>>
    /\ persistentState = [connected |-> FALSE]
    /\ agentState = NoAgentState
    /\ connectCalls = 0
    /\ msgCount = 0
    /\ scheduled = <<>>
    /\ last = NoEvent
    /\ pendingResponses = [i \in Ids |-> 0]
    /\ waiters = <<>>
    /\ tab = NoTab
    /\ dispatch = NoDispatch
    /\ wait = NoWait
    /\ popup = NoPopup
    /\ tasks = <<>>
    /\ state = getDefaultState
    /\ socketBudget = MaxMsgSockets
    /\ msgBudget = MaxMsgs

Next ==
    \/ Connect
    \/ \E i \in 1..Len(timers) : ReconnectTimer(i)
    \/ \E s \in Sockets : SocketOpen(s)
    \/ \E s \in Sockets : SocketFail(s)
    \/ \E s \in Sockets : SocketClose(s)
    \/ disconnect
    \/ \E s \in Sockets, f \in Frames : SocketMessage(s, f)
    \/ \E k \in 1..Len(requests), o \in Outcomes : ActionSettles(k, o)

Spec == Init /\ [][Next]_vars

\* The link on one socket with the frames it receives and, for the
\* WebSocketManager, the calls of createResponseFuture and resolveResponse.
InitCorrelation ==
    /\ impl \in Impls
    /\ sockets = [s \in Sockets |-> "NONE"]
    /\ ws = Null
    /\ reconnectAttempts = 0
    /\ timers = <<>>
    /\ notifications = 0
    /\ sent = [s \in Sockets |-> <<>>]
    /\ requests = <<>>
    /\ persistentState = [connected |-> FALSE]
    /\ agentState = NoAgentState
    /\ connectCalls = 0
    /\ msgCount = 0
    /\ scheduled = <<>>
    /\ last = NoEvent
    /\ pendingResponses = [i \in Ids |-> 0]
    /\ waiters = <<>>
    /\ tab = NoTab
    /\ dispatch = NoDispatch
    /\ wait = NoWait
    /\ popup = NoPopup
    /\ tasks = <<>>
    /\ state = getDefaultState
    /\ socketBudget = MaxWaiterSockets
    /\ msgBudget = MaxMsgs

NextCorrelation ==
    \/ Connect
    \/ \E s \in Sockets : SocketOpen(s)
    \/ \E s \in Sockets, f \in Frames : SocketMessage(s, f)
    \/ \E k \in 1..Len(requests), o \in Outcomes : ActionSettles(k, o)
    \/ \E i \in Ids : CreateResponseFuture(i)
    \/ \E r \in Responses : ResolveResponse(r)
    \/ \E w \in 1..Len(waiters) : ResponseTimeout(w)

SpecCorrelation == InitCorrelation /\ [][NextCorrelation]_vars

\* Action envelopes as the server sends them: an id and an action, no type.
Envelopes ==
    {f \in Frames : /\ f.json = "object" /\ f.type = Absent /\ f.id \in Ids
                    /\ f.action = "act" /\ f.status = Absent}

\* The link just after its first connect() (the guard of connect passes, as ws
\* is null), exchanging action envelopes and results while its socket may drop
\* and be re-established by the reconnect timer.
InitConcurrent ==
    /\ impl \in Impls
    /\ sockets = [s \in Sockets |-> IF s = 1 THEN "CONNECTING" ELSE "NONE"]
    /\ ws = 1
    /\ reconnectAttempts = 0
    /\ timers = <<>>
    /\ notifications = 0
    /\ sent = [s \in Sockets |-> <<>>]
    /\ requests = <<>>
    /\ persistentState = [connected |-> FALSE]
    /\ agentState = NoAgentState
    /\ connectCalls = 1
    /\ msgCount = 0
    /\ scheduled = <<>>
    /\ last = NoEvent
    /\ pendingResponses = [i \in Ids |-> 0]
    /\ waiters = <<>>
    /\ tab = NoTab
    /\ dispatch = NoDispatch
    /\ wait = NoWait
    /\ popup = NoPopup
    /\ tasks = <<>>
    /\ state = getDefaultState
    /\ socketBudget = MaxConcurrentSockets
    /\ msgBudget = MaxConcurrentMsgs

NextConcurrent ==
    \/ \E i \in 1..Len(timers) : ReconnectTimer(i)
    \/ \E s \in Sockets : SocketOpen(s)
    \/ \E s \in Sockets : SocketFail(s)
    \/ \E s \in Sockets : SocketClose(s)
    \/ \E s \in Sockets, f \in Envelopes : SocketMessage(s, f)
    \/ \E k \in 1..Len(requests), o \in Outcomes : ActionSettles(k, o)

SpecConcurrent == InitConcurrent /\ [][NextConcurrent]_vars

\* The field a page-scripting handler requires before it looks for the tab
\* (Absent: none), and the error it throws without it.
requiredByHandler(action) ==
    CASE action \in {"waitFor", "click", "type", "query"} -> "selector"
      [] action = "press" -> "key"
      [] OTHER -> Absent
handlerRequiresMsg(action) ==
    CASE action = "press" -> "press requires key"
      [] OTHER -> action \o " requires selector"

\* WaitFor, Click, Type, Press, Query, SmartClick, SmartType and UploadFile
\* handlers: the handler's own payload check, getActiveTabSafe, then the
\* injected function, whose result is results[0].result.
scripting(action, payload, t, inj) ==
    IF requiredByHandler(action) # Absent /\ ~truthy(payload[requiredByHandler(action)])
    THEN Ran(Throw(handlerRequiresMsg(action)), <<>>)
    ELSE IF getActiveTabSafe(t) # Absent
    THEN Ran(Throw(getActiveTabSafe(t)), <<>>)
    ELSE LET calls == <<ChromeCall("scripting.executeScript", t.url)>> IN
         CASE inj = "ok" -> Ran(Return([done |-> action]), calls)
           [] inj = "noResult" -> Ran(Return(Absent), calls)
           [] OTHER -> Ran(Throw("Script failed"), calls)

\* visible(el) of the function smartClick injects.
visible(el) ==
    el.width > 0 /\ el.height > 0 /\ el.display # "none" /\ el.visibility # "hidden"

\* el.click() on the j-th element that strategy s matched.
Click(s, j) == [api |-> "element.click", url |-> s, element |-> j]

\* The text strategy: the first visible candidate is clicked.
RECURSIVE clickByText(_, _)
clickByText(candidates, j) ==
    IF j > Len(candidates) THEN Ran(Throw("Could not find element"), <<>>)
    ELSE IF ~visible(candidates[j]) THEN clickByText(candidates, j + 1)       \* continue
    ELSE Ran(Return([clicked |-> TRUE, method |-> "text", matched |-> "a"]), <<Click("text", j)>>)

\* The function smartClick injects, from strategy i on: a locator strategy
\* takes the first element its query matches (querySelector, getElementById)
\* and clicks it if it is visible.
RECURSIVE clickBy(_, _, _)
clickBy(opts, dom, i) ==
    IF i = Len(Strategies)
    THEN IF truthy(opts.text) \/ truthy(opts.description)
         THEN clickByText(dom[i], 1)
         ELSE Ran(Throw("Could not find element"), <<>>)
    ELSE IF truthy(opts[Strategies[i]]) /\ dom[i] # <<>> /\ visible(dom[i][1])
    THEN Ran(Return([clicked |-> TRUE, method |-> Strategies[i]]), <<Click(Strategies[i], 1)>>)
    ELSE clickBy(opts, dom, i + 1)

\* SmartClickHandler.handle / smartClick: getActiveTabSafe, then the injected
\* function on document dom.
smartClick(payload, t, dom, inj) ==
    IF getActiveTabSafe(t) # Absent
    THEN Ran(Throw(getActiveTabSafe(t)), <<>>)
    ELSE LET calls == <<ChromeCall("scripting.executeScript", t.url)>>
             r == clickBy(payload, dom, 1)
         IN  CASE inj = "ok" -> Ran(r.out, calls \o r.calls)
               [] inj = "noResult" -> Ran(Return(Absent), calls \o r.calls)
               [] OTHER -> Ran(Throw("Script failed"), calls)

\* SwitchTabHandler.handle / switchToTab, in a window of n tabs.  Comparing
\* undefined with a number is false both ways, and tabs[undefined].id throws.
switchTab(payload, n) ==
    LET ix == payload.index IN
    IF ix.type # "undefined" /\ (ix.value < 0 \/ ix.value >= n)
    THEN Ran(Throw("Tab index out of range"), <<>>)
    ELSE IF ix.type = "undefined"
    THEN Ran(Throw("Cannot read properties of undefined (reading 'id')"), <<>>)
    ELSE Ran(Return([switched |-> TRUE, index |-> ix]), <<ChromeCall("tabs.update:active", "")>>)

\* DownloadHandler.handle / downloadFile.
download(payload, inj) ==
    IF ~truthy(payload.url) THEN Ran(Throw("download requires url"), <<>>)
    ELSE IF inj = "rejects"
    THEN Ran(Throw("Download failed: Invalid URL"), <<ChromeCall("downloads.download", payload.url)>>)
    ELSE Ran(Return([downloading |-> TRUE, url |-> payload.url]),
             <<ChromeCall("downloads.download", payload.url)>>)

\* CaptureScreenshotHandler.handle / captureScreenshot: every error is caught.
captureScreenshot(t, inj) ==
    IF t = NoTab THEN Ran(Return(""), <<>>)
    ELSE IF inj = "ok" THEN Ran(Return("iVBORw0KGgo"), <<ChromeCall("tabs.captureVisibleTab", "")>>)
    ELSE Ran(Return(""), <<ChromeCall("tabs.captureVisibleTab", "")>>)

\* Tabs in the current window, as chrome.tabs.query({currentWindow}) lists them.
windowTabs(t) == IF t = NoTab THEN 0 ELSE 2

\* handler.execute(payload) of the registry entry / the handler function that
\* the switch of background.js calls.
execute(action, payload, t, pg, inj) ==
    CASE action = "navigate" -> navigate(payload, t)
      [] action = "getPageInfo" -> getPageInfo(t, inj)
      [] action = "getInteractiveElements" -> getInteractiveElements(t, pg, inj)
      [] action = "switchTab" -> switchTab(payload, windowTabs(t))
      [] action = "download" -> download(payload, inj)
      [] action = "captureScreenshot" -> captureScreenshot(t, inj)
      [] action = "smartClick" -> smartClick(payload, t, pg, inj)
      [] OTHER -> scripting(action, payload, t, inj)

validatePayload_noSmartClick(action, payload) ==
    CASE action \in {"navigate", "download"} /\ ~truthy(payload.url) -> action \o " requires payload.url"
      [] action \in {"waitFor", "click", "type", "query"} /\ ~truthy(payload.selector) ->
            action \o " requires payload.selector"
      [] action = "press" /\ ~truthy(payload.key) -> "press requires payload.key"
      [] action = "smartType" /\ ~truthy(payload.text) -> "smartType requires payload.text"
      [] action = "switchTab" /\ payload.index.type # "number" ->
            "switchTab requires payload.index (number)"
      [] OTHER -> Absent
\* validatePayload(action, payload): the message of the error it throws, or
\* Absent when it returns.
validatePayload(action, payload) ==
    CASE action \in {"navigate", "download"} /\ ~truthy(payload.url) -> action \o " requires payload.url"
      [] action \in {"waitFor", "click", "type", "query"} /\ ~truthy(payload.selector) ->
            action \o " requires payload.selector"
      [] action = "press" /\ ~truthy(payload.key) -> "press requires payload.key"
      [] action = "smartClick" /\ \A f \in LocatorFields : ~truthy(payload[f]) ->
            "smartClick requires at least one identifier"
      [] action = "smartType" /\ ~truthy(payload.text) -> "smartType requires payload.text"
      [] action = "switchTab" /\ payload.index.type # "number" ->
            "switchTab requires payload.index (number)"
      [] OTHER -> Absent

\* A dispatch: how handleAction's promise settles, the handlers it executed
\* and the chrome calls they made.
Dispatched(out, executed, calls) == [out |-> out, executed |-> executed, calls |-> calls]

\* handleAction(message) of the action router.  actionHandlers[action] is
\* undefined for a name that is neither an own nor an inherited key; for an
\* inherited key it is a function of Object.prototype, validations[action] is
\* that function too (calling it throws nothing), and handler.execute is
\* undefined, so calling it throws a TypeError inside the try block.
router_handleAction(env, t, pg, inj) ==
    IF env.action \notin KnownActions \cup InheritedKeys
    THEN Dispatched(Throw("Unknown action: " \o env.action), <<>>, <<>>)
    ELSE IF env.action \in InheritedKeys
    THEN Dispatched(Throw("Action '" \o env.action \o "' failed: handler.execute is not a function"),
                    <<>>, <<>>)
    ELSE IF validatePayload(env.action, env.payload) # Absent
    THEN Dispatched(Throw(validatePayload(env.action, env.payload)), <<>>, <<>>)
    ELSE LET r == execute(env.action, env.payload, t, pg, inj) IN
         IF r.out.kind = "return"
         THEN Dispatched(r.out, <<env.action>>, r.calls)
         ELSE Dispatched(Throw("Action '" \o env.action \o "' failed: " \o r.out.message),
                         <<env.action>>, r.calls)

\* handleAction(message) of background.js: the switch over action.
bg_handleAction(env, t, pg, inj) ==
    IF env.action \notin KnownActions
    THEN Dispatched(Throw("Unknown action: " \o env.action), <<>>, <<>>)
    ELSE LET r == execute(env.action, env.payload, t, pg, inj) IN
         Dispatched(r.out, <<env.action>>, r.calls)

\* The tab after the chrome calls of a dispatch: tabs.create and tabs.update
\* load the url they were given (a relative one resolves against the
\* extension's own origin).
tabAfter(t, calls) ==
    IF calls # <<>> /\ calls[1].api \in {"tabs.create", "tabs.update"}
    THEN Tab(IF isValid(calls[1].url) THEN calls[1].url
             ELSE "chrome-extension://self/" \o calls[1].url)
    ELSE t

\* The result frame the link sends for a settled dispatch (the frame of
\* handleMessage / ws.onmessage after the await).
resultFrame(env, out) ==
    IF out.kind = "return"
    THEN SuccessFrame(env.id, out.value)
    ELSE ErrorFrame(env.id, IF impl = "wsm" THEN errorMsg(out) ELSE bg_errorMsg(out))

\* One envelope is dispatched and runs to its result: in tab t (as it was
\* before), on document pg, with injection outcome inj.
Dispatch(env, pg, inj) ==
    /\ dispatch.n < MaxDispatches
    /\ LET d == IF impl = "wsm" THEN router_handleAction(env, tab, pg, inj)
                ELSE bg_handleAction(env, tab, pg, inj)
       IN  /\ dispatch' = [n |-> dispatch.n + 1, env |-> env, tab |-> tab, page |-> pg,
                           inj |-> inj, out |-> d.out, executed |-> d.executed,
                           calls |-> d.calls, result |-> resultFrame(env, d.out)]
           /\ tab' = tabAfter(tab, d.calls)
    /\ UNCHANGED <<linkVars, corrVars, timedVars, popupVars, scheduled, last>>

InitDispatch ==
    /\ impl \in Impls
    /\ sockets = [s \in Sockets |-> "NONE"]
    /\ ws = Null
    /\ reconnectAttempts = 0
    /\ timers = <<>>
    /\ notifications = 0
    /\ sent = [s \in Sockets |-> <<>>]
    /\ requests = <<>>
    /\ persistentState = [connected |-> FALSE]
    /\ agentState = NoAgentState
    /\ connectCalls = 0
    /\ msgCount = 0
    /\ scheduled = <<>>
    /\ last = NoEvent
    /\ pendingResponses = [i \in Ids |-> 0]
    /\ waiters = <<>>
    /\ socketBudget = 0
    /\ msgBudget = 0
    /\ tab \in Tabs
    /\ dispatch = NoDispatch
    /\ wait = NoWait
    /\ popup = NoPopup
    /\ tasks = <<>>
    /\ state = getDefaultState

NextDispatch ==
    \E env \in ActionEnvelopes, inj \in Injections :
        \E pg \in PagesFor(env.action) : Dispatch(env, pg, inj)

SpecDispatch == InitDispatch /\ [][NextDispatch]_vars

----------------------------------------------------------------------------
(* Handlers that suspend: waitFor on its poll timer, navigate on the tab. *)

\* The handler's promise settles with out; handleAction rethrows a handler's
\* error wrapped (the router) or as it is (background.js), and the link
\* sends the result frame.
settle(w, out) ==
    LET o == IF impl = "wsm" /\ out.kind # "return"
             THEN Throw("Action '" \o w.env.action \o "' failed: " \o out.message)
             ELSE out
    IN  [w EXCEPT !.phase = "settled", !.out = out, !.result = resultFrame(w.env, o)]

\* tick() of the function waitFor injects, run elapsed ms after its start on
\* a document where the selector matches (present) or not.
tick(w, elapsed, present) ==
    LET sel == w.env.payload.selector IN
    IF present
    THEN settle([w EXCEPT !.elapsed = elapsed], Return([found |-> TRUE, selector |-> sel]))
    ELSE IF elapsed > w.ms
    THEN settle([w EXCEPT !.elapsed = elapsed],
                Throw("Timeout: " \o sel \o " not found within " \o ToString(w.ms) \o "ms"))
    ELSE [w EXCEPT !.phase = "poll", !.elapsed = elapsed]

\* WaitForHandler.handle / waitForElement on a tab that can be scripted: the
\* injected function starts and runs its first tick at once.
StartWaitFor(env, present) ==
    /\ wait.phase = "idle"
    /\ env.action = "waitFor"
    /\ truthy(env.payload.selector)
    /\ getActiveTabSafe(tab) = Absent
    /\ wait' = tick([NoWait EXCEPT !.env = env, !.ms = waitTimeout(env.payload),
                                   !.present = present],
                    0, present)
    /\ UNCHANGED <<linkVars, corrVars, dispatchVars, popupVars, last>>

\* The element the selector matches is added to the document.
ElementAppears ==
    /\ wait.phase = "poll"
    /\ ~wait.present
    /\ wait' = [wait EXCEPT !.present = TRUE]
    /\ UNCHANGED <<linkVars, corrVars, dispatchVars, popupVars, last>>

\* The timer of setTimeout(tick, 100) fires, d ms after it was set.
PollTick(d) ==
    /\ wait.phase = "poll"
    /\ wait' = tick(wait, wait.elapsed + d, wait.present)
    /\ UNCHANGED <<linkVars, corrVars, dispatchVars, popupVars, last>>

\* NavigateHandler.handle / navigateTo up to its suspension: the tab is
\* created or updated and starts loading, the onUpdated listener is added.
StartNavigate(env) ==
    /\ wait.phase = "idle"
    /\ env.action = "navigate"
    /\ truthy(env.payload.url)
    /\ wait' = [NoWait EXCEPT !.phase = "tabComplete", !.env = env]
    /\ tab' = [Tab(env.payload.url) EXCEPT !.readyState = "loading"]
    /\ UNCHANGED <<linkVars, corrVars, dispatch, popupVars, last>>

\* chrome.tabs.onUpdated reports status complete for the tab: the listener of
\* waitForTabComplete resolves the promise.
TabComplete ==
    /\ tab # NoTab
    /\ tab.readyState = "loading"
    /\ tab' = [tab EXCEPT !.readyState = "complete"]
    /\ wait' = IF wait.phase = "tabComplete"
               THEN settle(wait, Return(Navigated(IF truthy(tab.url) THEN tab.url
                                                  ELSE wait.env.payload.url)))
               ELSE wait
    /\ UNCHANGED <<linkVars, corrVars, dispatch, popupVars, last>>

\* The user closes the tab.  No onUpdated event follows for it; a script
\* injected in it is torn down and executeScript rejects.
TabRemoved ==
    /\ tab # NoTab
    /\ tab' = NoTab
    /\ wait' = IF wait.phase = "poll"
               THEN settle(wait, Throw("Frame with ID 0 was removed."))
               ELSE wait
    /\ UNCHANGED <<linkVars, corrVars, dispatch, popupVars, last>>

InitTimed ==
    /\ impl \in Impls
    /\ sockets = [s \in Sockets |-> "NONE"]
    /\ ws = Null
    /\ reconnectAttempts = 0
    /\ timers = <<>>
    /\ notifications = 0
    /\ sent = [s \in Sockets |-> <<>>]
    /\ requests = <<>>
    /\ persistentState = [connected |-> FALSE]
    /\ agentState = NoAgentState
    /\ connectCalls = 0
    /\ msgCount = 0
    /\ scheduled = <<>>
    /\ last = NoEvent
    /\ pendingResponses = [i \in Ids |-> 0]
    /\ waiters = <<>>
    /\ socketBudget = 0
    /\ msgBudget = 0
    /\ tab \in Tabs
    /\ dispatch = NoDispatch
    /\ wait = NoWait
    /\ popup = NoPopup
    /\ tasks = <<>>
    /\ state = getDefaultState

Lateness == {0, MaxLateness}

NextTimed ==
    \/ \E env \in TimedEnvelopes, present \in BOOLEAN : StartWaitFor(env, present)
    \/ ElementAppears
    \/ \E late \in Lateness : PollTick(pollInterval + late)
    \/ \E env \in TimedEnvelopes : StartNavigate(env)
    \/ TabComplete
    \/ TabRemoved

\* Timers that are set fire, and a tab that stays open finishes loading.
SpecTimed ==
    /\ InitTimed
    /\ [][NextTimed]_vars
    /\ WF_vars(\E late \in Lateness : PollTick(pollInterval + late))
    /\ WF_vars(TabComplete)

----------------------------------------------------------------------------
(* The popup (popup.js) and the server's tasks it submits and polls.  The   *)
(* server is outside the extension: its tasks take the statuses the         *)
(* specification lists and stay in a terminal one.                          *)

Statuses == {"queued", "processing", "completed", "failed", "cancelled"}
Terminal == {"completed", "failed", "cancelled"}

\* The popup's globals and page, once init has run on an empty stored state:
\* the Run button is disabled until the first connection check answers.
\* intervals are the setInterval timers not cleared (timerTask: the task id
\* each one polls), submitting the POST /execute requests in flight, polls the
\* GET /status requests in flight (by task id), finalRenders the
\* renderFinalResult calls made for each task.
OpenedPopup ==
    [open |-> TRUE, connected |-> FALSE, activeTaskId |-> Null, statusPollTimer |-> Null,
     prevStatus |-> Absent, disabled |-> TRUE, intervals |-> {},
     timerTask |-> [i \in 1..(MaxTimers + 1) |-> Null], timersMade |-> 0, submitting |-> 0,
     submitted |-> 0, polls |-> <<>>, finalRenders |-> [t \in 1..(MaxTasks + 1) |-> 0]]

\* renderConnectionStatus(isConnected)
renderConnectionStatus(p, isConnected) ==
    [p EXCEPT !.connected = isConnected,
              !.disabled = IF ~isConnected THEN TRUE
                           ELSE IF p.activeTaskId = Null \/ p.prevStatus \in {"completed", "failed"}
                           THEN FALSE
                           ELSE @]

\* restoreReadyState()
restoreReadyState(p) == [p EXCEPT !.disabled = IF p.connected THEN FALSE ELSE @]

\* stopStatusPolling()
stopStatusPolling(p) ==
    IF p.statusPollTimer # Null
    THEN [p EXCEPT !.intervals = @ \ {p.statusPollTimer}, !.statusPollTimer = Null]
    ELSE p

\* startStatusPolling(taskId) up to the return of setInterval.
startStatusPolling(p, taskId) ==
    LET id == p.timersMade + 1 IN
    [p EXCEPT !.intervals = (IF p.statusPollTimer # Null THEN @ \ {p.statusPollTimer} ELSE @)
                                \cup {id},
              !.statusPollTimer = id,
              !.timerTask[id] = taskId,
              !.timersMade = id]

\* The click handler of the Run button (a disabled button gets no click), with
\* a task text, up to its await of the POST.
RunClick ==
    /\ popup.open
    /\ ~popup.disabled
    /\ popup.submitted < MaxTasks
    /\ popup' = [popup EXCEPT !.prevStatus = Absent, !.disabled = TRUE,
                              !.submitting = @ + 1, !.submitted = @ + 1]
    /\ last' = NoEvent
    /\ UNCHANGED <<linkVars, corrVars, dispatchVars, timedVars, tasks, state>>

\* The POST /execute of a click returns: with a task id (resp.ok), or with an
\* error status or a network error.
SubmitReturns(ok) ==
    /\ popup.open
    /\ popup.submitting > 0
    /\ IF ok
       THEN /\ popup.timersMade < MaxTimers
            /\ tasks' = Append(tasks, "queued")
            /\ popup' = startStatusPolling([popup EXCEPT !.submitting = @ - 1,
                                                         !.activeTaskId = Len(tasks) + 1],
                                           Len(tasks) + 1)
       ELSE /\ popup' = restoreReadyState([popup EXCEPT !.submitting = @ - 1])
            /\ UNCHANGED tasks
    /\ last' = NoEvent
    /\ UNCHANGED <<linkVars, corrVars, dispatchVars, timedVars, state>>

\* An interval timer fires: its callback requests the status of its task.
PollTimerFires(id) ==
    /\ popup.open
    /\ id \in popup.intervals
    /\ Len(popup.polls) < MaxPolls
    /\ popup' = [popup EXCEPT !.polls = Append(@, popup.timerTask[id])]
    /\ last' = NoEvent
    /\ UNCHANGED <<linkVars, corrVars, dispatchVars, timedVars, tasks, state>>

\* The i-th status request in flight returns (ok) or fails: the rest of the
\* interval callback.
PollReturns(i, ok) ==
    /\ popup.open
    /\ i \in 1..Len(popup.polls)
    /\ LET task == popup.polls[i]
           status == tasks[task]
           rest == [j \in 1..(Len(popup.polls) - 1) |->
                        IF j < i THEN popup.polls[j] ELSE popup.polls[j + 1]]
           p1 == [popup EXCEPT !.polls = rest]
           p2 == [p1 EXCEPT !.prevStatus = status]
       IN  IF ~ok THEN popup' = p1
           ELSE IF status \in {"completed", "failed"}
           THEN /\ popup.finalRenders[task] < MaxRenders
                /\ popup' = restoreReadyState(
                                [stopStatusPolling(p2) EXCEPT !.finalRenders[task] = @ + 1])
           ELSE popup' = p2
    /\ last' = Event(IF ok THEN tasks[popup.polls[i]] ELSE "requestFailed", Null, NoFrame,
                     popup.polls[i])
    /\ UNCHANGED <<linkVars, corrVars, dispatchVars, timedVars, tasks, state>>

\* checkServerConnection: the background answers the 5 s connection check.
ConnectionCheck(isConnected) ==
    /\ popup.open
    /\ popup' = renderConnectionStatus(popup, isConnected)
    /\ last' = NoEvent
    /\ UNCHANGED <<linkVars, corrVars, dispatchVars, timedVars, tasks, state>>

\* The onMessage listener on a stateUpdate with state s.
StateUpdate(s) ==
    /\ popup.open
    /\ LET changed == s.currentTaskId # Null /\ popup.activeTaskId # s.currentTaskId
           polls == changed /\ s.taskStatus \notin {"completed", "failed"}
           p1 == IF changed THEN [popup EXCEPT !.activeTaskId = s.currentTaskId] ELSE popup
           p2 == IF polls THEN startStatusPolling(p1, s.currentTaskId) ELSE p1
       IN  /\ polls => popup.timersMade < MaxTimers
           /\ popup' = renderConnectionStatus(p2, s.connected)
    /\ last' = NoEvent
    /\ UNCHANGED <<linkVars, corrVars, dispatchVars, timedVars, tasks, state>>

\* The server moves a task on; a task in a terminal status stays there.
TaskMoves(t, status) ==
    /\ t \in 1..Len(tasks)
    /\ tasks[t] \notin Terminal
    /\ status # "queued"
    /\ tasks[t] # status
    /\ tasks' = [tasks EXCEPT ![t] = status]
    /\ last' = NoEvent
    /\ UNCHANGED <<linkVars, corrVars, dispatchVars, timedVars, popup, state>>

InitPopup ==
    /\ impl \in Impls
    /\ sockets = [s \in Sockets |-> "NONE"]
    /\ ws = Null
    /\ reconnectAttempts = 0
    /\ timers = <<>>
    /\ notifications = 0
    /\ sent = [s \in Sockets |-> <<>>]
    /\ requests = <<>>
    /\ persistentState = [connected |-> FALSE]
    /\ agentState = NoAgentState
    /\ connectCalls = 0
    /\ msgCount = 0
    /\ scheduled = <<>>
    /\ last = NoEvent
    /\ pendingResponses = [i \in Ids |-> 0]
    /\ waiters = <<>>
    /\ socketBudget = 0
    /\ msgBudget = 0
    /\ tab = NoTab
    /\ dispatch = NoDispatch
    /\ wait = NoWait
    /\ popup = OpenedPopup
    /\ tasks = <<>>
    /\ state = getDefaultState

NextPopup ==
    \/ RunClick
    \/ \E ok \in BOOLEAN : SubmitReturns(ok)
    \/ \E id \in 1..MaxTimers : PollTimerFires(id)
    \/ \E i \in 1..MaxPolls, ok \in BOOLEAN : PollReturns(i, ok)
    \/ \E isConnected \in BOOLEAN : ConnectionCheck(isConnected)
    \/ \E s \in [currentTaskId : {Null} \cup 1..Len(tasks), taskStatus : {"planning", "completed"},
                 connected : BOOLEAN] : StateUpdate(s)
    \/ \E t \in 1..MaxTasks, status \in Statuses : TaskMoves(t, status)

SpecPopup == InitPopup /\ [][NextPopup]_vars

----------------------------------------------------------------------------
(* The StateManager and a popup opening on its state. *)

\* The task statuses the server reports, and 'idle'.
TaskStatuses ==
    {"idle", "queued", "planning", "processing", "verifying", "replanning", "completed",
     "failed", "cancelled"}

\* update(updates), given the merged object { ...this.state, ...updates }.
update(merged) == state' = [merged EXCEPT !.lastUpdate = "now"]

\* isTaskActive()
isTaskActive(s) ==
    s.currentTaskId # Null /\ s.taskStatus \in {"planning", "processing", "verifying"}

addLog_noShift(type, message) ==
    update([state EXCEPT !.logs = Append(state.logs,
                [timestamp |-> "now", type |-> type, message |-> message, details |-> ""])])
\* addLog(type, message)
addLog(type, message) ==
    LET logs == Append(state.logs,
                       [timestamp |-> "now", type |-> type, message |-> message, details |-> ""])
    IN  update([state EXCEPT !.logs = IF Len(logs) > logCap THEN Tail(logs) ELSE logs])

\* The n-th addLog call of the run; its message is n.
AddLog ==
    /\ ~popup.open
    /\ LET n == IF state.logs = <<>> THEN 1 ELSE state.logs[Len(state.logs)].message + 1
       IN  /\ n <= MaxLogs
           /\ addLog("info", n)
           /\ last' = Event("addLog", Null, NoFrame, n)
    /\ UNCHANGED <<linkVars, corrVars, dispatchVars, timedVars, popup, tasks>>

\* setTask(taskId, description)
SetTask(taskId) ==
    /\ ~popup.open
    /\ update([state EXCEPT !.currentTaskId = taskId, !.taskDescription = "task",
                            !.taskStatus = "planning"])
    /\ last' = NoEvent
    /\ UNCHANGED <<linkVars, corrVars, dispatchVars, timedVars, popup, tasks>>

\* setStatus(status)
SetStatus(status) ==
    /\ ~popup.open
    /\ update([state EXCEPT !.taskStatus = status])
    /\ last' = NoEvent
    /\ UNCHANGED <<linkVars, corrVars, dispatchVars, timedVars, popup, tasks>>

\* A caller asks isTaskActive().
IsTaskActive ==
    /\ ~popup.open
    /\ last' = Event(IF isTaskActive(state) THEN "active" ELSE "inactive", Null, NoFrame, 0)
    /\ UNCHANGED <<linkVars, corrVars, dispatchVars, timedVars, popupVars>>

\* The popup opens: loadPersistentState() of popup.js on the state that
\* getState answers.
PopupOpens ==
    /\ ~popup.open
    /\ LET p == IF state.currentTaskId # Null
                THEN [OpenedPopup EXCEPT !.activeTaskId = state.currentTaskId]
                ELSE OpenedPopup
       IN  popup' = IF state.currentTaskId # Null
                       /\ state.taskStatus \in {"processing", "planning", "verifying"}
                    THEN startStatusPolling(p, state.currentTaskId)
                    ELSE p
    /\ last' = NoEvent
    /\ UNCHANGED <<linkVars, corrVars, dispatchVars, timedVars, tasks, state>>

InitState ==
    /\ impl = "wsm"
    /\ sockets = [s \in Sockets |-> "NONE"]
    /\ ws = Null
    /\ reconnectAttempts = 0
    /\ timers = <<>>
    /\ notifications = 0
    /\ sent = [s \in Sockets |-> <<>>]
    /\ requests = <<>>
    /\ persistentState = [connected |-> FALSE]
    /\ agentState = NoAgentState
    /\ connectCalls = 0
    /\ msgCount = 0
    /\ scheduled = <<>>
    /\ last = NoEvent
    /\ pendingResponses = [i \in Ids |-> 0]
    /\ waiters = <<>>
    /\ socketBudget = 0
    /\ msgBudget = 0
    /\ tab = NoTab
    /\ dispatch = NoDispatch
    /\ wait = NoWait
    /\ popup = NoPopup
    /\ tasks = <<>>
    /\ state = getDefaultState

NextState ==
    \/ AddLog
    \/ SetTask(1)
    \/ \E status \in TaskStatuses : SetStatus(status)
    \/ IsTaskActive
    \/ PopupOpens

SpecState == InitState /\ [][NextState]_vars

----------------------------------------------------------------------------
(* Properties. *)

\* Request k's handler finishes in this step.
Settles(k) == requests[k].state = "running" /\ requests'[k].state = "settled"

\* The result frame owed to request k when its handler finishes in this step:
\* the returned value, the thrown Error's message, or the thrown string.
ExpectedResult(k) ==
    CASE requests'[k].outcome.kind = "return" ->
            SuccessFrame(requests[k].id, requests'[k].outcome.value)
      [] requests'[k].outcome.kind = "throwError" ->
            ErrorFrame(requests[k].id, requests'[k].outcome.message)
      [] OTHER ->
            ErrorFrame(requests[k].id, requests'[k].outcome.string)

\* This step handed frame f to the action handler.
Started(f) ==
    /\ Len(requests') = Len(requests) + 1
    /\ requests'[Len(requests')].id = f.id
    /\ requests'[Len(requests')].state = "running"

\* A handler that finishes is answered with its one result frame on the link's
\* socket if that is open and with nothing otherwise; a finished request is
\* never touched again; result frames are sent by finishing handlers only.
ResultFramesStep ==
    /\ \A k \in 1..Len(requests) :
          /\ Settles(k) =>
                IF ws # Null /\ sockets[ws] = "OPEN"
                THEN sent' = [sent EXCEPT ![ws] = Append(@, ExpectedResult(k))]
                ELSE sent' = sent
          /\ requests[k].state = "settled" => requests'[k] = requests[k]
    /\ (\E s \in Sockets : /\ Len(sent'[s]) > Len(sent[s])
                           /\ sent'[s][Len(sent'[s])].status # Absent)
          => \E k \in 1..Len(requests) : Settles(k)

\* A frame that is no control frame and carries a non-empty id and action.
ActionEnvelope(f) ==
    /\ f.json = "object"
    /\ f.type \notin {"ping", "connected"}
    /\ f.id \notin {Absent, ""}
    /\ f.action \notin {Absent, ""}

\* C1, as amended: every inbound frame that is neither a ping nor a connected
\* frame and carries a non-empty id and a non-empty action is handed to the
\* action handler once, and when the handler finishes exactly one result frame
\* is sent if the link's socket is open (none otherwise, never a second one):
\* it carries the request's id, status "success" and the returned value, or
\* status "error" and the error's message.
C1_ResultFrames ==
    [][ /\ (last'.op = "message" /\ ActionEnvelope(last'.frame)) => Started(last'.frame)
        /\ ResultFramesStep ]_vars

\* C1 as stated: every inbound frame that carries an id and an action (both
\* non-empty) is executed and answered with exactly one result frame.
C1_Original ==
    [][ /\ ( /\ last'.op = "message"
              /\ last'.frame.id \notin {Absent, ""}
              /\ last'.frame.action \notin {Absent, ""} )
              => Started(last'.frame)
        /\ ResultFramesStep ]_vars

\* C1 witness: a handler threw an Error and its error frame went out on the open socket.
C1_Witness ==
    /\ last.op = "settle"
    /\ requests[last.req].outcome.kind = "throwError"
    /\ ws # Null
    /\ sockets[ws] = "OPEN"
    /\ Len(sent[ws]) > 0
    /\ sent[ws][Len(sent[ws])] = ErrorFrame(requests[last.req].id, "boom")

BackoffSchedule == <<1000, 2000, 4000, 8000, 16000>>

\* C2: the n-th reconnection attempt scheduled since the last open (or since
\* the start) has a delay of 1000 * 2^(n-1) ms: 1 s, 2 s, 4 s, 8 s, 16 s.
C2_BackoffDelays ==
    /\ Len(scheduled) <= Len(BackoffSchedule)
    /\ scheduled = SubSeq(BackoffSchedule, 1, Len(scheduled))

\* C2 witness: five attempts have been scheduled in a row.
C2_Witness == Len(scheduled) = 5 /\ scheduled[5] = 16000

\* Some socket's close event is handled in this step.
ClosesSome == \E s \in Sockets : sockets[s] # "CLOSED" /\ sockets'[s] = "CLOSED"

\* C3: the reconnect counter stays in 0..5 and at most 5 attempts are scheduled
\* between two opens; a close with the counter at 5 schedules no timer, creates
\* a notification, and leaves the link disconnected with no connection attempt
\* of its own to come (no pending reconnect timer, no socket connecting or open).
C3_Claim ==
    [][ /\ reconnectAttempts' \in 0..5
        /\ Len(scheduled') <= 5
        /\ (ClosesSome /\ reconnectAttempts = 5) =>
              /\ timers' = timers
              /\ notifications' = notifications + 1
              /\ timers' = <<>>
              /\ \A s \in Sockets : sockets'[s] \notin {"CONNECTING", "OPEN"} ]_vars

\* C4: every open resets the counter to 0, and the close of a socket that was
\* open starts again at attempt 1 with a delay of 1 s (the counter was 0).
C4_Claim ==
    [][ /\ (\E s \in Sockets : sockets[s] = "CONNECTING" /\ sockets'[s] = "OPEN")
              => reconnectAttempts' = 0
        /\ (\E s \in Sockets : sockets[s] = "OPEN" /\ sockets'[s] = "CLOSED")
              => /\ reconnectAttempts = 0
                 /\ reconnectAttempts' = 1
                 /\ timers' = Append(timers, 1000) ]_vars

\* C5: at most one socket created by the link is CONNECTING or OPEN.
C5_Claim == Cardinality(live) <= 1

Handshakes(q) == Cardinality({i \in 1..Len(q) : q[i] = Handshake})

\* C6: a socket that enters the open state gets exactly one handshake frame,
\* and no handshake frame is sent at any other time.
C6_Claim ==
    [][ \A s \in Sockets :
           Handshakes(sent'[s]) = Handshakes(sent[s]) +
               (IF sockets[s] = "CONNECTING" /\ sockets'[s] = "OPEN" THEN 1 ELSE 0) ]_vars

\* C7: a ping frame is answered with exactly one pong frame and nothing else,
\* and no action handler is started for it, whatever else the frame carries.
C7_Claim ==
    [][ (last'.op = "message" /\ last'.frame.json = "object" /\ last'.frame.type = "ping")
           => /\ \E s \in Sockets : sent' = [sent EXCEPT ![s] = Append(@, Pong)]
              /\ requests' = requests ]_vars

\* A dropped frame leaves no trace.
NoEffect ==
    /\ sent' = sent
    /\ requests' = requests
    /\ pendingResponses' = pendingResponses
    /\ waiters' = waiters
    /\ reconnectAttempts' = reconnectAttempts

C9_Claim ==
    [][ (last'.op = "message" /\ last'.frame \in Responses) =>
           IF pendingResponses[last'.frame.id] # 0
           THEN /\ pendingResponses'[last'.frame.id] = 0
                /\ waiters'[pendingResponses[last'.frame.id]].state =
                      (IF last'.frame.status = "success" THEN "resolved" ELSE "rejected")
           ELSE NoEffect ]_vars

\* The newest waiter made for this id has passed its deadline.
Expired(id) ==
    \E w \in 1..Len(waiters) :
        /\ waiters[w].id = id
        /\ waiters[w].timeout = "fired"
        /\ \A v \in (w + 1)..Len(waiters) : waiters[v].id # id

\* C10: every waiter carries a 20 s timer for as long as it is pending; when
\* the timer of an unresolved waiter fires the waiter is rejected with a
\* timeout error and its id leaves the pending map; a resolveResponse for an
\* id whose waiter has expired resolves nothing and leaves the map unchanged.
C10_TimeoutAndLateResponse ==
    [][ /\ \A w \in 1..Len(waiters') :
              /\ waiters'[w].delay = 20000
              /\ waiters'[w].state = "pending" => waiters'[w].timeout = "armed"
        /\ \A w \in 1..Len(waiters) :
              (waiters[w].timeout = "armed" /\ waiters'[w].timeout = "fired") =>
                  /\ pendingResponses'[waiters[w].id] = 0
                  /\ waiters[w].state = "pending" =>
                        /\ waiters'[w].state = "rejected"
                        /\ waiters'[w].error = "Action timeout"
        /\ (last'.op = "resolve" /\ Expired(last'.frame.id)) =>
              /\ waiters' = waiters
              /\ pendingResponses' = pendingResponses ]_vars

\* C10 witness: a waiter timed out and a response for its id arrived afterwards.
C10_Witness ==
    /\ last.op = "resolve"
    /\ Expired(last.frame.id)
    /\ pendingResponses[last.frame.id] = 0
    /\ \E w \in 1..Len(waiters) :
          /\ waiters[w].id = last.frame.id
          /\ waiters[w].state = "rejected"
          /\ waiters[w].error = "Action timeout"

\* Waiter w completes in this step (its promise is resolved or rejected).
Completes(w) == waiters[w].state = "pending" /\ waiters'[w].state # "pending"

\* C11: pendingResponses holds at most one entry per id (it maps an id to one
\* waiter), every entry is a waiter made for that id that is still pending, and
\* in the step in which a waiter completes, by a response or by its timeout,
\* its id leaves pendingResponses.
C11_PendingMap ==
    [][ /\ \A i \in Ids :
              pendingResponses'[i] # 0 =>
                  /\ pendingResponses'[i] \in 1..Len(waiters')
                  /\ waiters'[pendingResponses'[i]].id = i
                  /\ waiters'[pendingResponses'[i]].state = "pending"
        /\ \A w \in 1..Len(waiters) :
              Completes(w) => pendingResponses'[waiters[w].id] = 0 ]_vars

\* C11 witness: two waiters were made for the same id; the later one was
\* completed by a response, the id has left the map, and the earlier one is
\* still pending.
C11_Witness ==
    /\ Len(waiters) = 2
    /\ waiters[1].id = waiters[2].id
    /\ waiters[1].state = "pending"
    /\ waiters[2].state = "resolved"
    /\ pendingResponses[waiters[2].id] = 0

\* C12: a resolveResponse for an id that is in pendingResponses resolves exactly
\* one waiter (the one registered for the id) with the response and cancels
\* its timer; a resolved waiter stays resolved with its value, so it is never
\* rejected by a timeout; a resolveResponse for an id that is not in the map
\* (a second one for the same id) resolves nothing.
C12_ResolveOnce ==
    [][ /\ last'.op = "resolve" =>
              LET p == pendingResponses[last'.frame.id] IN
              IF p # 0
              THEN /\ Completes(p)
                   /\ waiters'[p].state = "resolved"
                   /\ waiters'[p].value = last'.frame
                   /\ waiters'[p].timeout = "cleared"
                   /\ \A w \in 1..Len(waiters) : w # p => waiters'[w] = waiters[w]
                   /\ Len(waiters') = Len(waiters)
              ELSE waiters' = waiters
        /\ \A w \in 1..Len(waiters) :
              waiters[w].state = "resolved" =>
                  /\ waiters'[w] = waiters[w]
                  /\ waiters[w].timeout = "cleared" ]_vars

\* C12 witness: a second resolveResponse for an id whose waiter the first one
\* resolved.
C12_Witness ==
    /\ last.op = "resolve"
    /\ last.req = 0
    /\ \E w \in 1..Len(waiters) :
          /\ waiters[w].id = last.frame.id
          /\ waiters[w].state = "resolved"
          /\ waiters[w].timeout = "cleared"

\* Some action handler is still running.
Busy == \E k \in 1..Len(requests) : requests[k].state = "running"

\* C13: an action envelope that arrives while earlier actions are still running
\* is handed to the action handler in the same step (nothing is queued behind
\* the running ones); the result frame of a handler that finishes goes out in
\* that step, at the end of what was sent, whatever other requests are running
\* or were received earlier; and it carries the id of its own request.
C13_NoSerialization ==
    [][ /\ (last'.op = "message" /\ ActionEnvelope(last'.frame) /\ Busy) =>
              /\ Started(last'.frame)
              /\ \A k \in 1..Len(requests) : requests'[k] = requests[k]
        /\ \A k \in 1..Len(requests) :
              Settles(k) =>
                  /\ \A j \in 1..Len(requests) : j # k => requests'[j] = requests[j]
                  /\ (ws # Null /\ sockets[ws] = "OPEN") =>
                        /\ sent' = [sent EXCEPT ![ws] = Append(@, ExpectedResult(k))]
                        /\ sent'[ws][Len(sent'[ws])].id = requests[k].id ]_vars

\* C13 witness: two requests with different ids were running together and the
\* later one was answered first: its result precedes the other's on the socket.
C13_Witness ==
    /\ Len(requests) = 2
    /\ requests[1].id # requests[2].id
    /\ requests[1].state = "settled"
    /\ requests[2].state = "settled"
    /\ ws # Null
    /\ Len(sent[ws]) = 3
    /\ sent[ws][2].id = requests[2].id
    /\ sent[ws][3].id = requests[1].id

\* Some socket carries a result frame with the id of request k.
Answered(k) ==
    \E s \in Sockets : \E n \in 1..Len(sent[s]) :
        sent[s][n].status # Absent /\ sent[s][n].id = requests[k].id

\* C14: when the socket an action arrived on has dropped while the action was
\* executing and the link holds an open socket again, a finished action's
\* result frame, with the request's id, has been sent.
C14_Claim ==
    \A k \in 1..Len(requests) :
        ( /\ requests[k].state = "settled"
          /\ sockets[requests[k].sock] = "CLOSED"
          /\ ws # Null /\ ws # requests[k].sock /\ sockets[ws] = "OPEN" )
        => Answered(k)

\* The last dispatch was of this action.
DispatchedAction(a) == dispatch.n > 0 /\ dispatch.env.action = a

\* The last dispatch ended in an error result with the request's id.
ErrorResult ==
    /\ dispatch.out.kind # "return"
    /\ dispatch.result.status = "error"
    /\ dispatch.result.id = dispatch.env.id

\* The last dispatch made no chrome.tabs.update or chrome.tabs.create call.
NoTabCall ==
    \A i \in 1..Len(dispatch.calls) : dispatch.calls[i].api \notin {"tabs.update", "tabs.create"}

\* C15: a navigate whose url begins with chrome://, edge://, about: or
\* chrome-extension:// ends in an error result and no tab is updated or created.
C15_Claim ==
    ( /\ DispatchedAction("navigate")
      /\ \E p \in {"chrome://", "edge://", "about:", "chrome-extension://"} :
            startsWith(dispatch.env.payload.url, p) )
    => (ErrorResult /\ NoTabCall /\ tab = dispatch.tab)

\* C16: a navigate is accepted only when its url is a valid absolute URL; one
\* whose url is non-empty but not a valid absolute URL ends in an error result
\* and no tab is updated or created.
C16_Claim ==
    DispatchedAction("navigate") =>
        /\ dispatch.out.kind = "return" => isValid(dispatch.env.payload.url)
        /\ ( /\ dispatch.env.payload.url \notin {Absent, ""}
             /\ ~isValid(dispatch.env.payload.url) )
           => (ErrorResult /\ NoTabCall /\ tab = dispatch.tab)

\* The envelope lacks what its action requires: the field is absent or empty
\* (for switchTab: index is not a number; for smartClick: all seven locators).
RequiredMissing(env) ==
    LET absent(f) == env.payload[f] \in {Absent, ""} IN
    CASE env.action \in {"navigate", "download"} -> absent("url")
      [] env.action \in {"waitFor", "click", "type", "query"} -> absent("selector")
      [] env.action = "press" -> absent("key")
      [] env.action = "smartType" -> absent("text")
      [] env.action = "switchTab" -> env.payload.index.type # "number"
      [] env.action = "smartClick" -> \A f \in LocatorFields : absent(f)
      [] OTHER -> FALSE

\* C17: in the action router an envelope of a known action that lacks its
\* required field ends in an error result with no handler executed and no
\* chrome call made, and one that has it is passed to exactly one handler,
\* the one registered for its action.
C17_PayloadConstraints ==
    (dispatch.n > 0 /\ impl = "wsm" /\ dispatch.env.action \in KnownActions) =>
        IF RequiredMissing(dispatch.env)
        THEN ErrorResult /\ dispatch.executed = <<>> /\ dispatch.calls = <<>>
        ELSE dispatch.executed = <<dispatch.env.action>>

\* C17 witness: the router rejected a smartClick whose seven locators are all
\* present but empty.
C17_Witness ==
    /\ impl = "wsm"
    /\ DispatchedAction("smartClick")
    /\ \A f \in LocatorFields : dispatch.env.payload[f] = ""
    /\ ErrorResult
    /\ dispatch.executed = <<>>

\* C18: an envelope whose action is none of the 14 known kinds ends in an
\* unknown-action error result with the request's id, with no handler executed
\* and no chrome call made.
C18_Claim ==
    (dispatch.n > 0 /\ dispatch.env.action \notin KnownActions) =>
        /\ dispatch.result = ErrorFrame(dispatch.env.id, "Unknown action: " \o dispatch.env.action)
        /\ dispatch.executed = <<>>
        /\ dispatch.calls = <<>>

\* The observation cannot be taken: no active tab, a forbidden scheme, or the
\* script injection fails.
ObservationFails ==
    \/ dispatch.tab = NoTab
    \/ \E p \in {"chrome://", "edge://", "about:", "chrome-extension://"} :
          startsWith(dispatch.tab.url, p)
    \/ dispatch.inj = "rejects"

\* C19: getPageInfo and getInteractiveElements always end in a success result;
\* when the observation cannot be taken getPageInfo returns empty url, title
\* and readyState with a non-empty diagnostics.error, and
\* getInteractiveElements returns the empty list.
C19_Claim ==
    /\ DispatchedAction("getPageInfo") =>
          /\ dispatch.result.status = "success"
          /\ ObservationFails =>
                /\ dispatch.out.kind = "return"
                /\ dispatch.out.value.url = ""
                /\ dispatch.out.value.title = ""
                /\ dispatch.out.value.readyState = ""
                /\ dispatch.out.value.diagnostics.error \notin {Absent, ""}
    /\ DispatchedAction("getInteractiveElements") =>
          /\ dispatch.result.status = "success"
          /\ ObservationFails => (dispatch.out.kind = "return" /\ dispatch.out.value = <<>>)

\* An element counts as visible.
Visible(el) ==
    /\ el.width # 0 /\ el.height # 0
    /\ el.display # "none" /\ el.visibility # "hidden"

\* C20: what getInteractiveElements returns from a page it can script is the
\* descriptors of the first 30 visible elements of the document, in document
\* order (all of them when there are fewer): never more than 30, never an
\* invisible element, and invisible elements do not use up the cap.
C20_FirstThirtyVisible ==
    ( /\ DispatchedAction("getInteractiveElements")
      /\ dispatch.out.kind = "return"
      /\ dispatch.inj = "ok"
      /\ ~ObservationFails ) =>
        LET shown == SelectSeq(dispatch.page, Visible)
            count == IF Len(shown) < 30 THEN Len(shown) ELSE 30
        IN  /\ Len(dispatch.out.value) <= 30
            /\ dispatch.out.value = [i \in 1..count |-> Descriptor(shown[i])]

\* C20 witness: a document of more than 30 visible elements with invisible
\* ones among the first 30 positions; 30 descriptors came back, the last for
\* the element at position 32.
C20_Witness ==
    /\ DispatchedAction("getInteractiveElements")
    /\ dispatch.out.kind = "return"
    /\ Len(dispatch.page) > 30
    /\ ~Visible(dispatch.page[2])
    /\ Len(dispatch.out.value) = 30
    /\ dispatch.out.value[30].id = 32

\* A handler is suspended / has settled and its result frame is made.
Suspended == wait.phase \in {"tabComplete", "poll"}
Settled == wait.phase = "settled" /\ wait.result.id = wait.env.id

\* C21: once an action envelope is accepted its handler returns or throws
\* within a bounded time, so a result frame is eventually produced for every
\* action kind, navigate included.
C21_Claim == Suspended ~> Settled

\* A waitFor handler has started on a tab that stays open.
WaitForRun == wait.env.action = "waitFor" /\ wait.phase # "idle" /\ tab # NoTab

\* waitFor with deadline ms: it polls on only while the deadline had not passed
\* at its last poll, returns {found, selector} only for an element that is
\* there, and otherwise gives up with the timeout error.
WaitForWithin(ms) ==
    LET sel == wait.env.payload.selector IN
    /\ wait.phase = "poll" => wait.elapsed <= ms
    /\ (wait.phase = "settled" /\ wait.present) =>
            wait.out = Return([found |-> TRUE, selector |-> sel])
    /\ (wait.phase = "settled" /\ ~wait.present) =>
            /\ wait.elapsed > ms
            /\ wait.out.kind = "throwError"
            /\ wait.out.message = "Timeout: " \o sel \o " not found within " \o ToString(ms) \o "ms"

\* C22 (as stated): waitFor gives up with a timeout error once the element has
\* not appeared within the payload's timeout_ms, 5000 ms when timeout_ms is
\* absent, and returns {found, selector} if the element appears before that.
C22_Original ==
    WaitForRun =>
        WaitForWithin(IF wait.env.payload.timeout_ms.type = "undefined" THEN 5000
                      ELSE wait.env.payload.timeout_ms.value)

\* C22 (amended): the deadline is the payload's timeout field, 5000 ms when
\* that field is absent or 0; timeout_ms is not read.
C22_WaitForDeadline ==
    WaitForRun =>
        WaitForWithin(IF wait.env.payload.timeout.type = "undefined"
                         \/ wait.env.payload.timeout.value = 0
                      THEN 5000
                      ELSE wait.env.payload.timeout.value)

\* A waitFor with timeout 300 and timeout_ms 200 has given up, after 300 ms.
C22_Witness ==
    /\ WaitForRun
    /\ wait.phase = "settled"
    /\ wait.out.kind = "throwError"
    /\ wait.env.payload.timeout = Number(300)
    /\ wait.env.payload.timeout_ms = Number(200)
    /\ wait.elapsed > 300

\* The page-scripting actions.
ScriptingActions ==
    {"waitFor", "click", "type", "press", "query", "smartClick", "smartType", "uploadFile"}

\* The tab of the last dispatch could not be scripted: there was none, or its
\* URL had a forbidden scheme.
Unscriptable ==
    \/ dispatch.tab = NoTab
    \/ \E p \in {"chrome://", "edge://", "about:", "chrome-extension://"} :
          startsWith(dispatch.tab.url, p)

\* The last dispatch injected no script.
NoInjection ==
    \A i \in 1..Len(dispatch.calls) : dispatch.calls[i].api # "scripting.executeScript"

\* C25: a page-scripting action fails with an error and injects no script when
\* there is no active tab or the active tab's URL has a forbidden scheme; a
\* navigate (with a url) on a forbidden tab still updates the tab.
C25_UnscriptableTab ==
    /\ (dispatch.n > 0 /\ dispatch.env.action \in ScriptingActions /\ Unscriptable) =>
            ErrorResult /\ NoInjection
    /\ ( /\ DispatchedAction("navigate")
         /\ dispatch.tab # NoTab
         /\ Unscriptable
         /\ dispatch.env.payload.url \notin {Absent, ""} ) =>
            dispatch.calls = <<ChromeCall("tabs.update", dispatch.env.payload.url)>>

\* A click with a selector was dispatched while the active tab showed an
\* edge:// page.
C25_Witness ==
    /\ DispatchedAction("click")
    /\ dispatch.env.payload.selector = "#a"
    /\ dispatch.tab = Tab("edge://settings/")
    /\ ErrorResult

\* The close event of a socket that disconnect() closed arrives in this step.
ExplicitCloseCompletes ==
    \E s \in Sockets : sockets[s] = "CLOSING" /\ sockets'[s] = "CLOSED"

\* C26: after disconnect() the connection stays closed: the close of the
\* socket it closed schedules no reconnection attempt (and so creates no new
\* socket).
C26_Claim ==
    [][ExplicitCloseCompletes => (timers' = timers /\ reconnectAttempts' = reconnectAttempts)]_vars

\* C27: a resolveResponse(id) that arrives while a waiter for that id is
\* unsettled and its 20 s timer has not fired resolves that waiter, whatever
\* createResponseFuture calls came before (a second one for a pending id
\* included).
C27_Claim ==
    [][ last'.op = "resolve" =>
            \A w \in 1..Len(waiters) :
                ( /\ waiters[w].id = last'.frame.id
                  /\ waiters[w].state = "pending"
                  /\ waiters[w].timeout = "armed" ) =>
                    /\ waiters'[w].state = "resolved"
                    /\ waiters'[w].value = last'.frame ]_vars

\* Strategy i of the last smartClick dispatch had its locator in the payload
\* and matched a visible element of the document.
MatchedVisible(i) ==
    /\ IF i = Len(Strategies)
       THEN dispatch.env.payload.text \notin {Absent, ""}
            \/ dispatch.env.payload.description \notin {Absent, ""}
       ELSE dispatch.env.payload[Strategies[i]] \notin {Absent, ""}
    /\ \E j \in 1..Len(dispatch.page[i]) : Visible(dispatch.page[i][j])

\* The clicks the last dispatch made.
Clicks == SelectSeq(dispatch.calls, LAMBDA c : c.api = "element.click")

\* C24: smartClick tries selector, id, name, ariaLabel, role, then
\* text/description, skipping a strategy whose locator is absent or matches no
\* visible element; it clicks exactly once and reports as method the first
\* strategy that matched a visible element; when none matches it clicks
\* nothing and fails with an error.
C24_Claim ==
    ( /\ DispatchedAction("smartClick")
      /\ ~Unscriptable
      /\ dispatch.inj = "ok"
      /\ dispatch.executed = <<"smartClick">> ) =>
        LET matched == {i \in 1..Len(Strategies) : MatchedVisible(i)} IN
        IF matched = {}
        THEN ErrorResult /\ Clicks = <<>>
        ELSE /\ Len(Clicks) = 1
             /\ dispatch.result.status = "success"
             /\ dispatch.result.data.method =
                    Strategies[CHOOSE i \in matched : \A k \in matched : i <= k]

\* C28: in the background worker, after each event handler (open, error,
\* close, clearState message, state reload) persistentState.connected is
\* true if and only if the current socket is open.
C28_Claim ==
    impl = "bg" => (persistentState.connected = TRUE <=> (ws # Null /\ sockets[ws] = "OPEN"))

\* C23: the popup stops polling once the task reports a terminal status
\* (completed, failed or cancelled): after a status response with a terminal
\* status has been handled no polling timer is active.
C23_Claim == (popup.open /\ last.op \in Terminal) => popup.intervals = {}

\* The status response handled in this step was requested before polling
\* stopped or before a newer task was started: no timer polls its task now.
StaleResponse ==
    /\ last'.op \in Statuses
    /\ \/ popup.statusPollTimer = Null
       \/ popup.timerTask[popup.statusPollTimer] # last'.req
       \/ popup.activeTaskId # last'.req

\* C30: for each task the final result is rendered (and the ready state
\* restored) once, at most one polling interval timer exists at any time, and
\* a stale status response causes no second final render and alters nothing
\* of the state shown.
C30_Claim ==
    [][ popup.open =>
            /\ \A t \in 1..MaxTasks : popup'.finalRenders[t] <= 1
            /\ Cardinality(popup'.intervals) <= 1
            /\ StaleResponse => popup' = [popup EXCEPT !.polls = popup'.polls] ]_vars

\* C29: the Run button is never enabled while a submission is in flight or
\* while the active task has not reached a terminal status; it is enabled only
\* when the popup is connected and no task is active.
C29_Claim ==
    (popup.open /\ ~popup.disabled) =>
        /\ popup.connected
        /\ popup.submitting = 0
        /\ popup.activeTaskId # Null => tasks[popup.activeTaskId] \in Terminal

\* C32: the message loop of background.js and WebSocketManager.handleMessage
\* classify every inbound frame alike: one drops it, answers it with pong or
\* executes it as an action exactly when the other does.
C32_Claim == last.op = "message" => classify(last.frame) = bg_classify(last.frame)

\* The stored task has a task id and a non-terminal status.
StoredTaskActive ==
    /\ state.currentTaskId # Null
    /\ state.taskStatus \in {"queued", "planning", "processing", "verifying", "replanning"}

\* C31: a stored task is treated as active exactly when it has a task id and
\* a non-terminal status: isTaskActive answers true for it, and a popup
\* opened on it resumes status polling for that task.
C31_Claim ==
    [][ /\ last'.op \in {"active", "inactive"} => (last'.op = "active" <=> StoredTaskActive)
        /\ (~popup.open /\ popup'.open) =>
              (StoredTaskActive <=>
                  \E id \in popup'.intervals : popup'.timerTask[id] = state.currentTaskId) ]_vars

\* C33: after any sequence of addLog calls state.logs holds at most 100
\* entries, the most recently added ones in insertion order, and addLog
\* leaves every other field but lastUpdate unchanged.
C33_AddLog ==
    [][ last'.op = "addLog" =>
            LET n == last'.req
                kept == IF n < 100 THEN n ELSE 100
            IN  /\ Len(state'.logs) <= 100
                /\ Len(state'.logs) = kept
                /\ \A i \in 1..kept : state'.logs[i].message = n - kept + i
                /\ [state' EXCEPT !.logs = <<>>, !.lastUpdate = Absent]
                      = [state EXCEPT !.logs = <<>>, !.lastUpdate = Absent] ]_vars

\* C33 witness: more than 100 entries were added, after a task was set; the
\* oldest one kept is the second.
C33_Witness ==
    /\ last.op = "addLog"
    /\ last.req = 101
    /\ Len(state.logs) = 100
    /\ state.logs[1].message = 2
    /\ state.currentTaskId = 1

====
